---- MODULE Spec2Model ----
(***************************************************************************)
(* Version reconciliation and release packaging of broforce_tools          *)
(* (Scripts/src/broforce_tools/cli.py, thunderstore.py).                   *)
(*                                                                         *)
(* A version string is modelled as the sequence of its '.'-separated       *)
(* segments, each segment a string ("1.10.x" is <<"1","10","x">>), which   *)
(* is what str.split('.') yields.  The empty string splits to <<"">>.      *)
(* Python's None is the empty sequence, which no string splits to.         *)
(***************************************************************************)
EXTENDS Integers, Sequences, FiniteSets, TLC

\* ------------------------------------------------------------------ bounds
\* Longest version string, in segments, drawn as an input of the comparator.
MaxSegs == 3
\* Longest dependency list drawn as an input of the outdated pass alone.
MaxDeps == 2
\* Outdated passes made one after the other on the same list.
MaxPasses == 2
\* Longest changelog text, in lines, drawn as an input of the parser.
MaxLines == 3
\* Times the marker is stripped from the same text.
MaxStrips == 2
\* Times the clock is advanced between calls of get_dependency_versions.
MaxTicks == 3
\* Entries added to the same changelog text.
MaxAdds == 2
\* Projects named with --package in one call of the unreleased command.
MaxNamed == 2
\* Calls of get_dependency_versions running at the same time.
NumCalls == 2

\* ------------------------------------------------------- version strings
None == << >>
EmptyStr == << "" >>

\* Segments int() parses, with their values; "10" orders after "2" as a
\* number and before it as text.
NumSegs == {"0", "2", "10"}
\* Segments int() raises ValueError on.
BadSegs == {"x"}
Segs == NumSegs \cup BadSegs

IntOf(s) == CASE s = "0" -> 0
              [] s = "1" -> 1
              [] s = "2" -> 2
              [] s = "3" -> 3
              [] s = "9" -> 9
              [] s = "10" -> 10

IsNumSeg(s) == s \in {"0", "1", "2", "3", "9", "10"}

\* `not v`: None and the empty string are falsy.
Falsy(v) == v = None \/ v = EmptyStr

WellFormed(v) == v # None /\ \A i \in 1..Len(v) : IsNumSeg(v[i])

\* [int(x) for x in v.split('.')]
Parts(v) == [i \in 1..Len(v) |-> IntOf(v[i])]

\* while len(parts) < n: parts.append(0)
PadTo(p, n) == [i \in 1..n |-> IF i <= Len(p) THEN p[i] ELSE 0]

Max(a, b) == IF a >= b THEN a ELSE b

\* for p1, p2 in zip(parts1, parts2): first unequal pair decides.
RECURSIVE CmpFrom(_, _, _)
CmpFrom(p1, p2, i) ==
    IF i > Len(p1) THEN 0
    ELSE IF p1[i] > p2[i] THEN 1
    ELSE IF p1[i] < p2[i] THEN -1
    ELSE CmpFrom(p1, p2, i + 1)

\* Mutation of compare_versions: no zero padding, zip() stops at the shorter
\* list and the longer one wins.
compare_versions_nopad(v1, v2) ==
    IF Falsy(v1) THEN -1
    ELSE IF Falsy(v2) THEN 1
    ELSE IF ~WellFormed(v1) \/ ~WellFormed(v2) THEN 0
    ELSE LET n == IF Len(v1) < Len(v2) THEN Len(v1) ELSE Len(v2)
             c == CmpFrom(SubSeq(Parts(v1), 1, n), SubSeq(Parts(v2), 1, n), 1)
         IN  IF c # 0 THEN c
             ELSE IF Len(v1) > Len(v2) THEN 1
             ELSE IF Len(v1) < Len(v2) THEN -1 ELSE 0

\* Mutation of compare_versions: the absent checks are swapped.
compare_versions_absent_high(v1, v2) ==
    IF Falsy(v1) THEN 1
    ELSE IF Falsy(v2) THEN -1
    ELSE IF ~WellFormed(v1) \/ ~WellFormed(v2) THEN 0
    ELSE LET n == Max(Len(v1), Len(v2))
         IN  CmpFrom(PadTo(Parts(v1), n), PadTo(Parts(v2), n), 1)

compare_versions(v1, v2) ==
    IF Falsy(v1) THEN -1
    ELSE IF Falsy(v2) THEN 1
    ELSE IF ~WellFormed(v1) \/ ~WellFormed(v2) THEN 0
    ELSE LET n == Max(Len(v1), Len(v2))
         IN  CmpFrom(PadTo(Parts(v1), n), PadTo(Parts(v2), n), 1)

\* -------------------------------------------------- dependency strings
\* A dependency string is the sequence of its '-'-separated tokens:
\* "UMM-UMM-1.0.2" is <<"UMM","UMM","1.0.2">>.

\* FALLBACK_DEPENDENCY_VERSIONS, and a registry answer with newer releases.
FALLBACK_DEPENDENCY_VERSIONS ==
    [UMM |-> "1.0.2", RocketLib |-> "2.4.0", BroMaker |-> "2.6.0"]
NewerVersions ==
    [UMM |-> "1.0.3", RocketLib |-> "2.4.0", BroMaker |-> "2.7.0"]
\* What one call of get_dependency_versions can return.
RegistryResults == {FALLBACK_DEPENDENCY_VERSIONS, NewerVersions}

DepKeys == << "UMM", "RocketLib", "BroMaker" >>

\* get_dependencies(): key -> "Namespace-Package-Version".
get_dependencies(versions) ==
    [UMM |-> << "UMM", "UMM", versions.UMM >>,
     RocketLib |-> << "RocketLib", "RocketLib", versions.RocketLib >>,
     BroMaker |-> << "BroMaker", "BroMaker", versions.BroMaker >>]

\* dep.rsplit('-', 1)[0]: everything before the last hyphen.
NamePart(dep) == SubSeq(dep, 1, Len(dep) - 1)

\* s.startswith(name_part + '-')
StartsWithName(s, name_part) ==
    /\ Len(name_part) < Len(s)
    /\ \A i \in 1..Len(name_part) : s[i] = name_part[i]

\* The first registry key, in dict order, whose string starts with the
\* entry's name part; 0 when none does (the for-else branch).
FirstMatch(dep, dependencies) ==
    LET hits == {k \in 1..Len(DepKeys) :
                    StartsWithName(dependencies[DepKeys[k]], NamePart(dep))}
    IN  IF hits = {} THEN 0
        ELSE CHOOSE k \in hits : \A j \in hits : k <= j

\* current_dep_string of the matching registry key; the entry itself when it
\* has no hyphen or no key matches.
MatchString(dep, dependencies) ==
    IF Len(dep) < 2 THEN dep
    ELSE LET k == FirstMatch(dep, dependencies)
         IN  IF k = 0 THEN dep ELSE dependencies[DepKeys[k]]

\* dep != current_dep_string
IsOutdated(dep, dependencies) == dep # MatchString(dep, dependencies)

\* Mutation of UpdatedEntry: only the version suffix of an outdated entry is
\* replaced, its name part is kept.
UpdatedEntry_suffix(dep, dependencies) ==
    IF IsOutdated(dep, dependencies)
    THEN Append(NamePart(dep),
                MatchString(dep, dependencies)[Len(MatchString(dep, dependencies))])
    ELSE dep

\* What the outdated pass appends to updated_deps for one manifest entry.
UpdatedEntry(dep, dependencies) ==
    IF IsOutdated(dep, dependencies) THEN MatchString(dep, dependencies) ELSE dep

\* updated_deps after the loop over current_deps.
UpdatedDeps(current_deps, dependencies) ==
    [i \in 1..Len(current_deps) |-> UpdatedEntry(current_deps[i], dependencies)]

\* outdated_deps: the (old, new) pairs, in manifest order.
OutdatedDeps(current_deps, dependencies) ==
    LET F[i \in 0..Len(current_deps)] ==
            IF i = 0 THEN << >>
            ELSE IF IsOutdated(current_deps[i], dependencies)
                 THEN Append(F[i - 1],
                             << current_deps[i],
                                MatchString(current_deps[i], dependencies) >>)
                 ELSE F[i - 1]
    IN  F[Len(current_deps)]

SeqToSet(s) == {s[i] : i \in 1..Len(s)}

\* detect_dependencies_from_csproj: UMM always, RocketLib and BroMaker when
\* the project file references them.
detect_dependencies_from_csproj(refs, versions) ==
    LET m == get_dependencies(versions)
    IN  << m.UMM >>
        \o (IF "RocketLib" \in refs THEN << m.RocketLib >> ELSE << >>)
        \o (IF "BroMakerLib" \in refs THEN << m.BroMaker >> ELSE << >>)

\* missing_deps: detected strings that are not in current_dep_set.
MissingDeps(detected, dep_set) ==
    LET F[i \in 0..Len(detected)] ==
            IF i = 0 THEN << >>
            ELSE IF detected[i] \notin dep_set THEN Append(F[i - 1], detected[i])
                 ELSE F[i - 1]
    IN  F[Len(detected)]

\* ------------------------------------------------------ changelog text
\* A changelog text is the sequence of its tokens: "##", "#", a run of
\* digits, a word, one punctuation character, the marker with its
\* parentheses, one blank " " or one line break "\n".  No regular
\* expression of the program can match a part of one token only.
IsWs(x) == x \in {" ", "\n"}

\* \d+
IsDigits(x) == x \in {"0", "1", "2", "3", "4", "9", "10"}

\* str.lower() of one token.
Lower(x) == IF x = "(Unreleased)" THEN "(unreleased)" ELSE x

\* The token at position i; "" past either end of the text.
At(t, i) == IF i \in 1..Len(t) THEN t[i] ELSE ""

\* \s* from position i on: the position of the first token that is no
\* whitespace.
RECURSIVE SkipWs(_, _)
SkipWs(t, i) == IF IsWs(At(t, i)) THEN SkipWs(t, i + 1) ELSE i

\* \d+\.\d+\.\d+ at position k.
VersionAt(t, k) ==
    /\ IsDigits(At(t, k)) /\ At(t, k + 1) = "."
    /\ IsDigits(At(t, k + 2)) /\ At(t, k + 3) = "."
    /\ IsDigits(At(t, k + 4))

\* Where ##\s*v? ends and the digits begin, for a match starting at i.
VersionStart(t, i) ==
    LET j == SkipWs(t, i + 1)
    IN  IF At(t, j) = "v" THEN j + 1 ELSE j

\* ##\s*v?\d+\.\d+\.\d+ matches at position i.
HeaderAt(t, i) == At(t, i) = "##" /\ VersionAt(t, VersionStart(t, i))

\* The position after the match of ##\s*v?\d+\.\d+\.\d+ at i.
HeaderEnd(t, i) == VersionStart(t, i) + 5

\* The first line break at or after position e; 0 when there is none.
NextNewline(t, e) ==
    LET hits == {n \in e..Len(t) : t[n] = "\n"}
    IN  IF hits = {} THEN 0 ELSE CHOOSE n \in hits : \A m \in hits : n <= m

\* (?=\n##\s|$) at position q; $ also matches before a final line break.
BlockEndsAt(t, q) ==
    \/ At(t, q) = "\n" /\ At(t, q + 1) = "##" /\ IsWs(At(t, q + 2))
    \/ q = Len(t) + 1
    \/ q = Len(t) /\ t[q] = "\n"

\* The lazy (.*?) from p on stops at the first position the lookahead
\* holds at.
BlockEnd(t, p) ==
    CHOOSE q \in p..(Len(t) + 1) :
        BlockEndsAt(t, q) /\ \A r \in p..(q - 1) : ~BlockEndsAt(t, r)

\* re.search: the leftmost position the whole pattern matches at, 0 when
\* it matches nowhere.  The pattern needs a line break after the version.
SearchHeader(t) ==
    LET hits == {i \in 1..Len(t) :
                    HeaderAt(t, i) /\ NextNewline(t, HeaderEnd(t, i)) # 0}
    IN  IF hits = {} THEN 0 ELSE CHOOSE i \in hits : \A j \in hits : i <= j

\* str.strip(): whitespace removed at both ends.
RECURSIVE StripWs(_)
StripWs(s) ==
    IF s = << >> THEN s
    ELSE IF IsWs(Head(s)) THEN StripWs(Tail(s))
    ELSE IF IsWs(s[Len(s)]) THEN StripWs(SubSeq(s, 1, Len(s) - 1))
    ELSE s

\* str.split('\n'): the pieces between line breaks, one piece more than
\* there are line breaks.
RECURSIVE SplitLines(_)
SplitLines(s) ==
    LET n == NextNewline(s, 1)
    IN  IF n = 0 THEN << s >>
        ELSE << SubSeq(s, 1, n - 1) >> \o SplitLines(SubSeq(s, n + 1, Len(s)))

\* The loop over entries_text.split('\n'): the stripped lines that are not
\* empty and start with '-'.
EntryLines(entries_text) ==
    LET stripped == [i \in 1..Len(SplitLines(entries_text)) |->
                        StripWs(SplitLines(entries_text)[i])]
    IN  SelectSeq(stripped, LAMBDA line : line # << >> /\ Head(line) = "-")

\* 'unreleased' in header_rest, header_rest being lowercased.
HasUnreleased(header_rest) ==
    \E i \in 1..Len(header_rest) :
        Lower(header_rest[i]) \in {"(unreleased)", "unreleased"}

NoEntries == [version |-> None, is_unreleased |-> FALSE, entries |-> << >>]

\* get_latest_version_entries on the text of an existing changelog.
LatestVersionEntries(content) ==
    LET i == SearchHeader(content)
        k == VersionStart(content, i)
        e == HeaderEnd(content, i)
        n == NextNewline(content, e)
        q == BlockEnd(content, n + 1)
    IN  IF i = 0 THEN NoEntries
        ELSE [version |-> << content[k], content[k + 2], content[k + 4] >>,
              is_unreleased |-> HasUnreleased(SubSeq(content, e, n - 1)),
              entries |->
                  EntryLines(StripWs(SubSeq(content, n + 1, q - 1)))]

\* Mutation of KeptEnd: the optional colon is not part of the pattern.
KeptEnd_nocolon(t, i) == HeaderEnd(t, i)

\* Where (##\s*v?\d+\.\d+\.\d+:?) ends for a match starting at i.
KeptEnd(t, i) ==
    IF At(t, HeaderEnd(t, i)) = ":" THEN HeaderEnd(t, i) + 1
    ELSE HeaderEnd(t, i)

\* The whole pattern (##\s*v?\d+\.\d+\.\d+:?)\s*\(unreleased\) matches at
\* i, letter case ignored.
MarkerAt(t, i) ==
    /\ HeaderAt(t, i)
    /\ Lower(At(t, SkipWs(t, KeptEnd(t, i)))) = "(unreleased)"

\* re.sub from position i on: each match, left to right and not
\* overlapping, is replaced by its first group.
RECURSIVE CleanedFrom(_, _)
CleanedFrom(t, i) ==
    IF i > Len(t) THEN << >>
    ELSE IF MarkerAt(t, i)
    THEN SubSeq(t, i, KeptEnd(t, i) - 1)
         \o CleanedFrom(t, SkipWs(t, KeptEnd(t, i)) + 1)
    ELSE << t[i] >> \o CleanedFrom(t, i + 1)

\* changelog_cleaned = re.sub(..., r'\1', changelog_content)
changelog_cleaned(content) == CleanedFrom(content, 1)

\* The changelog file: state "missing" | "ok", and its text.
NoChangelog == [state |-> "missing", text |-> << >>]

\* get_latest_version_entries: nothing from a file that does not exist.
get_latest_version_entries(c) ==
    IF c.state # "ok" THEN NoEntries ELSE LatestVersionEntries(c.text)

get_version_from_changelog(c) == get_latest_version_entries(c).version

\* has_unreleased_version: (is_unreleased, version or None)
has_unreleased_version(c) ==
    LET r == get_latest_version_entries(c)
    IN  IF r.is_unreleased THEN << TRUE, r.version >> ELSE << FALSE, None >>

\* get_unreleased_entries: (version or None, entries)
get_unreleased_entries(c) ==
    LET r == get_latest_version_entries(c)
    IN  IF r.is_unreleased THEN << r.version, r.entries >>
        ELSE << None, << >> >>

\* A line of f.readlines() starts at position i.
IsLineStart(t, i) == i \in 1..Len(t) /\ (i = 1 \/ t[i - 1] = "\n")

\* The last position of the line starting at s: its line break, or the end
\* of the text.
LineLast(t, s) == IF NextNewline(t, s) = 0 THEN Len(t) ELSE NextNewline(t, s)

\* line.startswith('##') and 'unreleased' in line.lower()
UnreleasedHashLine(t, s) ==
    /\ \/ t[s] = "##"
       \/ t[s] = "#" /\ At(t, s + 1) \in {"#", "##"}
    /\ HasUnreleased(SubSeq(t, s, LineLast(t, s)))

\* lines.insert(i + 1, f"- {entry}\n") and writelines: the new line
\* follows position e.
InsertAfter(t, e, entry) ==
    SubSeq(t, 1, e) \o << "-", " ", entry, "\n" >> \o SubSeq(t, e + 1, Len(t))

\* add_changelog_entry: whether it succeeded, and the file after the call.
add_changelog_entry(c, entry) ==
    LET t == c.text
        hits == {s \in 1..Len(t) : IsLineStart(t, s) /\ UnreleasedHashLine(t, s)}
        first == CHOOSE s \in hits : \A r \in hits : s <= r
    IN  IF ~has_unreleased_version(c)[1] \/ hits = {}
        THEN [ok |-> FALSE, file |-> c]
        ELSE [ok |-> TRUE,
              file |-> [c EXCEPT !.text =
                           InsertAfter(t, LineLast(t, first), entry)]]

\* The header "## v<version><rest>" of a three-segment version.
HeaderLine(ver, rest) ==
    << "##", " ", "v", ver[1], ".", ver[2], ".", ver[3] >> \o rest
Released == << >>
Marked == << " ", "(unreleased)" >>
Bullet == << "-", " ", "A" >>
Prose == << "A" >>

\* The text of the lines, each ended by a line break.
RECURSIVE JoinLines(_)
JoinLines(ls) ==
    IF ls = << >> THEN << >>
    ELSE Head(ls) \o << "\n" >> \o JoinLines(Tail(ls))

\* ------------------------------------------------------------ the project
VARIABLES
    \* files of the project
    manifest,          \* manifest.json: state "missing" | "malformed" | "ok"
    info,              \* Info.json / *.mod.json
    changelog,         \* Changelog.md: state and text
    zips,              \* archive file names in the releases folder
    prev_zips,         \* archive file names in "Previous Versions"
    zip_data,          \* content of each archive in the releases folder
    prev_data,         \* content of each archive in "Previous Versions"
    \* one do_package call
    pc,                \* position of the run
    runs_left,         \* do_package calls still to be made
    non_interactive,   \* parameter non_interactive
    project_type,      \* local project_type
    version,           \* local version
    highest_source,    \* local highest_source
    namespace,         \* local namespace
    manifest_data,     \* local manifest_data (the loaded manifest)
    updated_deps,      \* local updated_deps
    exit_code,         \* status the run ended with, -1 while it runs
    \* history of the run
    pre,               \* the files as they were when the run started
    override,          \* parameter version_override of the run
    decisions,         \* how each confirmable condition was settled
    cause,             \* why the run ended
    committed,         \* the manifest write of the version commit happened
    \* history of the project
    produced,          \* archives built so far and not replaced on request
    prior,             \* how the run before this one went
    \* inputs and results of the pure checks
    cmp_a, cmp_b, cmp_base, cmp_r,
    dl_deps, dl_reg, dl_staged, dl_passes,
    tx_orig, tx_text, tx_prev, tx_result, tx_strips, tx_op, tx_adds,
    \* the dependency cache and one get_dependency_versions call
    cache,             \* the cache file
    now,               \* time.time()
    ticks,             \* times the clock was advanced
    gd_pc,             \* position of the call
    gd_versions,       \* local versions
    gd_outcomes,       \* outcome of each lookup made, in order
    gd_result,         \* the map returned
    gd_pre,            \* the cache file when the call started
    gd_start,          \* the time when the call started
    gd_wrote,          \* "no" | "yes" | "oserror": the cache write
    gd_written,        \* what the call wrote to the cache file
    \* calls of get_dependency_versions running at the same time
    cc_pc,             \* position of each call
    cc_versions,       \* local versions of each call
    cc_result,         \* the map each call returned
    cc_frac,           \* digits of the fraction of each call's time.time()
    cc_wrote,          \* the record each call dumped
    cc_size,           \* size of the cache file, in digits over the shortest
    \* what do_package printed about the info file at the version commit
    info_report,
    \* one invocation that packages several projects
    b_mode,            \* how the projects to package were chosen
    b_batch,           \* the names the loop goes through, in its order
    b_pos,             \* names the loop has gone through
    b_log,             \* the do_package calls made and how each ended
    b_disk,            \* projects with files written by a do_package call
    b_state            \* "idle" | "running" | "returned" | "exited"

files == << manifest, info, changelog, zips, prev_zips, zip_data,
           prev_data >>
locals == << project_type, version, highest_source, namespace, manifest_data,
             updated_deps >>
history == << pre, override, decisions, cause, committed >>
cmpvars == << cmp_a, cmp_b, cmp_base, cmp_r >>
dlvars == << dl_deps, dl_reg, dl_staged, dl_passes >>
txvars == << tx_orig, tx_text, tx_prev, tx_result, tx_strips, tx_op,
            tx_adds >>
runlog == << produced, prior >>
gdvars == << cache, now, ticks, gd_pc, gd_versions, gd_outcomes, gd_result,
            gd_pre, gd_start, gd_wrote, gd_written >>
bvars == << b_mode, b_batch, b_pos, b_log, b_disk, b_state >>
ccvars == << cc_pc, cc_versions, cc_result, cc_frac, cc_wrote, cc_size >>
vars == << files, pc, runs_left, non_interactive, locals, exit_code, history,
           runlog, cmpvars, dlvars, txvars, gdvars, ccvars,
           info_report, bvars >>

\* ---------------------------------------------------- dependency cache
CACHE_DURATION == 24 * 60 * 60

\* A versions map with no entry, and one with an entry for UMM only.
EmptyMap == [k \in {} |-> ""]
PartialMap == [k \in {"UMM"} |-> "1.0.2"]

\* The cache file.  kind: "missing", "unreadable" (open raises OSError),
\* "invalid" (not JSON), "nonobject" (JSON, but no object) or "object";
\* ts_kind: the 'timestamp' key holds a "number", is "absent" or holds
\* "text"; writer: "code" when get_dependency_versions wrote the file.
NoCache == [kind |-> "missing", ts_kind |-> "absent", timestamp |-> 0,
            versions |-> EmptyMap, writer |-> "other"]
CacheFile(kind) == [NoCache EXCEPT !.kind = kind]

\* json.dump({'timestamp': time.time(), 'versions': versions})
CacheWritten(t, versions) ==
    [kind |-> "object", ts_kind |-> "number", timestamp |-> t,
     versions |-> versions, writer |-> "code"]

\* cache_data.get('timestamp', 0)
CacheTime(c) == IF c.ts_kind = "absent" THEN 0 ELSE c.timestamp

\* Mutation of Fresh: a cache of exactly CACHE_DURATION seconds is fresh.
Fresh_le(age) == age <= CACHE_DURATION

\* time.time() - cache_time < CACHE_DURATION
Fresh(age) == age < CACHE_DURATION

\* `if versions:`
Truthy(versions) == DOMAIN versions # {}

\* What one lookup meets: a body with a version, URLError or HTTPError, a
\* timeout, a body that is not JSON, a JSON object without a version, a
\* JSON body that is no object.
FetchOutcomes == {"ok", "url_error", "timeout", "bad_json", "empty",
                  "not_object"}

\* fetch_thunderstore_version for the outcomes that raise nothing: the
\* version, or "" for None and for an empty version_number.
fetch_thunderstore_version(dep, outcome) ==
    IF outcome = "ok" THEN NewerVersions[dep] ELSE ""

Procs == 1..NumCalls

CcIdle ==
    /\ cc_pc = [p \in Procs |-> "idle"]
    /\ cc_versions = [p \in Procs |-> EmptyMap]
    /\ cc_result = [p \in Procs |-> EmptyMap]
    /\ cc_frac = [p \in Procs |-> 0]
    /\ cc_wrote = [p \in Procs |-> NoCache]
    /\ cc_size = 0

BIdle ==
    /\ b_mode = "none" /\ b_batch = << >> /\ b_pos = 0 /\ b_log = << >>
    /\ b_disk = {} /\ b_state = "idle"

GdIdle ==
    /\ cache = NoCache /\ now = CACHE_DURATION /\ ticks = 0
    /\ gd_pc = "idle" /\ gd_versions = EmptyMap /\ gd_outcomes = << >>
    /\ gd_result = EmptyMap /\ gd_pre = NoCache /\ gd_start = 0
    /\ gd_wrote = "no" /\ gd_written = NoCache

V100 == << "1", "0", "0" >>
V10 == << "1", "0" >>
V200 == << "2", "0", "0" >>
V2x == << "2", "x" >>

\* Changelog texts of one header and one entry, the header released or
\* marked (unreleased), and a text with no header at all.
ChangelogOf(ver, rest) ==
    [state |-> "ok", text |-> JoinLines(<< HeaderLine(ver, rest), Bullet >>)]
Changelogs ==
    {[state |-> "ok", text |-> JoinLines(<< Prose >>)]}
    \cup {ChangelogOf(ver, rest) : ver \in {V100, V200},
                                   rest \in {Released, Marked}}
\* version_number of the manifest; None when the key is missing.
ManifestVersions == {None, EmptyStr, V10, V200, V2x}
\* Version of the info file; None when the key is missing.
InfoVersions == {None, V100, V200}
\* A --version argument.
OverrideVersions == {V100}

Authors == {"", "Unknown", "Author"}
\* What the developer types at the author prompt; validate_package_name
\* accepts both, the sentinel included.
TypedAuthors == {"Dev", "Unknown"}

NoBroMaker == ""
BroMakerVersions == {NoBroMaker, "2.6.0"}

UMM100 == << "UMM", "UMM", "1.0.0" >>
UMM102 == << "UMM", "UMM", "1.0.2" >>
UMMShort == << "UMM", "0.9" >>
RL200 == << "RocketLib", "RocketLib", "2.0.0" >>
RL240 == << "RocketLib", "RocketLib", "2.4.0" >>
Other100 == << "Other", "Pkg", "1.0.0" >>

\* Dependency lists of the manifest before the first run; no list has two
\* entries with the same Namespace-PackageName- prefix.
ManifestDeps ==
    { << >>, << UMM102 >>, << RL200 >>, << UMM102, RL240 >>,
      << Other100, UMM100 >>, << UMMShort, UMM102 >> }

\* References of the project's .csproj (no file: no reference).
CsprojRefs == { {}, {"RocketLib"}, {"RocketLib", "BroMakerLib"} }

\* zip_filename: {namespace}-{package_name}-{version}.zip of the one package.
ZipName(ns, ver) == << ns, ver >>

Conds == {"changelog", "author", "outdated", "missing", "bromaker", "archive"}
NoDecisions == [c \in Conds |-> "none"]

NoManifestData == [author |-> "", version_number |-> None, dependencies |-> << >>]

Terminal == {"done", "aborted", "failed", "crashed"}

Snapshot == [manifest |-> manifest, info |-> info, changelog |-> changelog,
             zips |-> zips, prev_zips |-> prev_zips,
             zip_data |-> zip_data, prev_data |-> prev_data]

CmpIdle == /\ cmp_a = None /\ cmp_b = None /\ cmp_base = << >> /\ cmp_r = << >>
DlIdle == /\ dl_deps = << >> /\ dl_reg = FALLBACK_DEPENDENCY_VERSIONS
          /\ dl_staged = << >> /\ dl_passes = 0
TxIdle == /\ tx_orig = << >> /\ tx_text = << >> /\ tx_prev = << >>
          /\ tx_result = << >> /\ tx_strips = 0
          /\ tx_op = "none" /\ tx_adds = 0

\* Every archive found before the first run was built by an earlier run.
ProducedBefore ==
    {<< n, zip_data[n] >> : n \in zips}
    \cup {<< n, prev_data[n] >> : n \in prev_zips}

\* No run was made before.
NoPrior == [outcome |-> "none", override |-> None, namespace |-> "",
            version |-> None]

RunIdle ==
    /\ pc = "idle" /\ non_interactive = FALSE
    /\ project_type = "none" /\ version = None /\ highest_source = ""
    /\ namespace = "" /\ manifest_data = NoManifestData
    /\ updated_deps = << >> /\ exit_code = -1
    /\ override = None /\ decisions = NoDecisions /\ cause = ""
    /\ committed = FALSE
    /\ prior = NoPrior

\* What an archive holds: the copies of manifest.json and of the metadata
\* folder's info file, and the cleaned changelog text as CHANGELOG.md.
Archive(m, cleaned, i) == [manifest |-> m, changelog |-> cleaned, info |-> i]

\* The archive an earlier run built of release 2.0.0.
EarlierArchive ==
    Archive([state |-> "ok", author |-> "Author", version_number |-> V200,
             dependencies |-> << >>],
            JoinLines(<< HeaderLine(V200, Released), Bullet >>),
            [state |-> "ok", Version |-> V200, BroMakerVersion |-> NoBroMaker])

NoManifest(st) == [state |-> st, author |-> "", version_number |-> None,
                   dependencies |-> << >>]
NoInfo(st) == [state |-> st, Version |-> None, BroMakerVersion |-> NoBroMaker]

\* The three version sources in every combination, around one manifest body.
VersionProjects ==
    /\ manifest \in
         {NoManifest("missing"), NoManifest("malformed")}
         \cup [state : {"ok"}, author : {"Author"},
               version_number : ManifestVersions, dependencies : {<< RL200 >>}]
    /\ info \in
         {NoInfo("missing"), NoInfo("malformed")}
         \cup [state : {"ok"}, Version : InfoVersions,
               BroMakerVersion : {"2.6.0"}]
    /\ changelog \in {NoChangelog} \cup Changelogs

\* Every manifest body and BroMakerVersion, around one combination of the
\* version sources.
BodyProjects ==
    /\ manifest \in [state : {"ok"}, author : Authors,
                     version_number : {V10}, dependencies : ManifestDeps]
    /\ info \in [state : {"ok"}, Version : {V100},
                 BroMakerVersion : BroMakerVersions]
    /\ changelog = ChangelogOf(V200, Marked)

\* The project before the packaging run; an archive of an earlier release
\* may lie in the releases folder.
Init ==
    /\ VersionProjects \/ BodyProjects
    /\ zips \in {{}, {ZipName("Author", V200)}}
    /\ prev_zips = {}
    /\ zip_data = [n \in zips |-> EarlierArchive]
    /\ prev_data = [n \in prev_zips |-> EarlierArchive]
    /\ produced = ProducedBefore
    /\ runs_left = 1
    /\ RunIdle
    /\ pre = Snapshot
    /\ CmpIdle
    /\ DlIdle
    /\ TxIdle
    /\ GdIdle
    /\ CcIdle
    /\ info_report = {}
    /\ BIdle

\* ------------------------------------------------------------ do_package
\* Mutation of End: every raise typer.Exit passes the failure code 1.
End_code1(state, code, why) ==
    /\ pc' = state
    /\ exit_code' = IF state = "done" THEN 0 ELSE 1
    /\ cause' = why

\* Ends the run: raise typer.Exit(code), or an exception leaving do_package.
End(state, code, why) ==
    /\ pc' = state
    /\ exit_code' = code
    /\ cause' = why

\* package(): one call of do_package with the command's options.
StartRun ==
    /\ pc \in {"idle"} \cup Terminal
    /\ runs_left > 0
    /\ runs_left' = runs_left - 1
    /\ pc' = "preconditions"
    /\ non_interactive' \in BOOLEAN
    /\ override' \in {None} \cup OverrideVersions
    /\ pre' = Snapshot
    /\ decisions' = NoDecisions
    /\ cause' = ""
    /\ committed' = FALSE
    /\ exit_code' = -1
    /\ project_type' = "none" /\ version' = None /\ highest_source' = ""
    /\ namespace' = "" /\ manifest_data' = NoManifestData
    /\ updated_deps' = << >>
    /\ prior' = [outcome |-> pc, override |-> override,
                  namespace |-> namespace, version |-> version]
    /\ info_report' = {}
    /\ UNCHANGED << files, produced, cmpvars, dlvars, txvars, gdvars,
                    ccvars, bvars >>

\* What the precondition checks find on disk besides the manifest and the
\* changelog: "none" when nothing is missing.
PreconditionItems == {"project", "readme", "icon", "type", "metadata", "dll"}

Preconditions ==
    /\ pc = "preconditions"
    /\ \E missing \in PreconditionItems \cup {"none"}, pt \in {"mod", "bro"} :
         IF \/ missing # "none"
            \/ manifest.state = "missing"
            \/ changelog.state = "missing"
         THEN /\ End("failed", 1, "precondition")
              /\ UNCHANGED project_type
         ELSE /\ project_type' = pt
              /\ pc' = "version_reconcile"
              /\ UNCHANGED << exit_code, cause >>
    /\ UNCHANGED << files, runs_left, non_interactive, version, highest_source,
                    namespace, manifest_data, updated_deps, pre, override,
                    decisions, committed, cmpvars, dlvars, txvars, runlog,
                    gdvars, ccvars, info_report, bvars >>

\* manifest_data_temp.get('version_number'), None when json.load raises.
ManifestVersionOf(m) == IF m.state = "ok" THEN m.version_number ELSE None

\* get_version_from_info_json
get_version_from_info_json(i) == IF i.state = "ok" THEN i.Version ELSE None

\* valid_versions: the candidates that are not None, in dict order.
ValidVersions(clv, mv, iv) ==
    SelectSeq(<< << "changelog", clv >>, << "manifest.json", mv >>,
                 << "Info.json/.mod.json", iv >> >>,
              LAMBDA c : c[2] # None)

\* Mutation of Replaces: a candidate also replaces a higher one.
Replaces_any(ver, highest) == compare_versions(ver, highest) # 0

\* Mutation of Replaces: the lower candidate replaces the higher one.
Replaces_lower(ver, highest) == compare_versions(ver, highest) < 0

\* compare_versions(ver, highest_version) > 0
Replaces(ver, highest) == compare_versions(ver, highest) > 0

\* The loop over valid_versions; best is << highest_source, highest_version >>.
RECURSIVE HighestFrom(_, _, _)
HighestFrom(cands, i, best) ==
    IF i > Len(cands) THEN best
    ELSE HighestFrom(cands, i + 1,
                     IF best[2] = None \/ Replaces(cands[i][2], best[2])
                     THEN cands[i] ELSE best)

\* Mutation of ChangelogOutdated: a changelog equal to the version counts
\* as outdated too.
ChangelogOutdated_eq(clv, ver) ==
    ~Falsy(clv) /\ compare_versions(clv, ver) <= 0

\* changelog_version and compare_versions(changelog_version, version) < 0
ChangelogOutdated(clv, ver) ==
    ~Falsy(clv) /\ compare_versions(clv, ver) < 0

Decide(c, d) == decisions' = [decisions EXCEPT ![c] = d]

VersionReconcile ==
    /\ pc = "version_reconcile"
    /\ IF ~Falsy(override)
       THEN /\ version' = override
            /\ pc' = "author_reconcile"
            /\ UNCHANGED << highest_source, exit_code, cause, decisions >>
       ELSE LET clv == get_version_from_changelog(changelog)
                cands == ValidVersions(clv, ManifestVersionOf(manifest),
                                       get_version_from_info_json(info))
                best == HighestFrom(cands, 1, << "", None >>)
            IN  IF cands = << >>
                THEN /\ End("failed", 1, "no_version")
                     /\ UNCHANGED << version, highest_source, decisions >>
                ELSE /\ version' = best[2]
                     /\ highest_source' = best[1]
                     /\ IF ~ChangelogOutdated(clv, best[2])
                        THEN /\ pc' = "author_reconcile"
                             /\ UNCHANGED << exit_code, cause, decisions >>
                        ELSE IF non_interactive
                        THEN \E allow_outdated_changelog \in BOOLEAN :
                               IF allow_outdated_changelog
                               THEN /\ Decide("changelog", "flag")
                                    /\ pc' = "author_reconcile"
                                    /\ UNCHANGED << exit_code, cause >>
                               ELSE /\ Decide("changelog", "noflag")
                                    /\ End("failed", 1, "noflag")
                        ELSE \E answer \in {"yes", "no", "cancel"} :
                               /\ Decide("changelog", answer)
                               /\ IF answer = "yes"
                                  THEN /\ pc' = "author_reconcile"
                                       /\ UNCHANGED << exit_code, cause >>
                                  ELSE End("aborted", 0, "declined")
    /\ UNCHANGED << files, runs_left, non_interactive, project_type, namespace,
                    manifest_data, updated_deps, pre, override, committed,
                    cmpvars, dlvars, txvars, runlog, gdvars, ccvars,
                    info_report, bvars >>

\* Mutation of AuthorMissing: only the sentinel counts as no author.
AuthorMissing_sentinel(ns) == ns = "Unknown"

\* namespace == 'Unknown' or not namespace
AuthorMissing(ns) == ns = "Unknown" \/ ns = ""

\* Mutation of ManifestAfterAuthor: the typed author is saved at once.
ManifestAfterAuthor_saved(m, typed) == [m EXCEPT !.author = typed]

\* The manifest file after the author was typed: line 563 changes
\* manifest_data only, the file is written at the version commit.
ManifestAfterAuthor(m, typed) == m

\* Lines 533-566: load the manifest, settle the author.
AuthorReconcile ==
    /\ pc = "author_reconcile"
    /\ IF manifest.state # "ok"
       THEN \* json.load raises outside any try block
            /\ End("crashed", 1, "manifest_json")
            /\ UNCHANGED << manifest, namespace, manifest_data, decisions >>
       ELSE LET data == [author |-> manifest.author,
                         version_number |-> manifest.version_number,
                         dependencies |-> manifest.dependencies]
            IN  IF ~AuthorMissing(manifest.author)
                THEN /\ namespace' = manifest.author
                     /\ manifest_data' = data
                     /\ pc' = "dep_outdated"
                     /\ UNCHANGED << manifest, exit_code, cause, decisions >>
                ELSE IF non_interactive
                THEN /\ Decide("author", "noflag")
                     /\ End("failed", 1, "noflag")
                     /\ UNCHANGED << manifest, namespace, manifest_data >>
                ELSE \E set_author \in {"yes", "no", "cancel"},
                        typed \in TypedAuthors \cup {"cancel"} :
                       IF set_author = "cancel"
                          \/ (set_author = "yes" /\ typed = "cancel")
                       THEN /\ Decide("author", "cancel")
                            /\ End("aborted", 0, "declined")
                            /\ UNCHANGED << manifest, namespace, manifest_data >>
                       ELSE IF set_author = "yes"
                       THEN /\ Decide("author", "yes")
                            /\ namespace' = typed
                            /\ manifest_data' = [data EXCEPT !.author = typed]
                            /\ manifest' = ManifestAfterAuthor(manifest, typed)
                            /\ pc' = "dep_outdated"
                            /\ UNCHANGED << exit_code, cause >>
                       ELSE /\ Decide("author", "no")
                            /\ namespace' = manifest.author
                            /\ manifest_data' = data
                            /\ pc' = "dep_outdated"
                            /\ UNCHANGED << manifest, exit_code, cause >>
    /\ UNCHANGED << info, changelog, zips, prev_zips, zip_data, prev_data,
                    runs_left, non_interactive, project_type, version,
                    highest_source,
                    updated_deps, pre, override, committed, cmpvars, dlvars,
                    txvars, runlog, gdvars, ccvars, info_report, bvars >>

\* list(S) of a Python set: the elements in some order.
ListsOf(S) ==
    {f \in [1..Cardinality(S) -> S] :
        \A i, j \in 1..Cardinality(S) : f[i] = f[j] => i = j}

\* current_deps: the list loaded from the manifest, which is not rewritten
\* before the version commit.
current_deps == manifest.dependencies

\* Mutation of KeptDeps: a declined update is applied all the same.
KeptDeps_applied(should_update, upd) == upd

\* manifest_data['dependencies'] after the outdated batch was settled.
KeptDeps(should_update, upd) ==
    IF should_update THEN upd ELSE manifest_data.dependencies

\* Lines 568-614: the outdated pass.
DepOutdated ==
    /\ pc = "dep_outdated"
    /\ \E versions \in RegistryResults :
         LET dependencies == get_dependencies(versions)
             outdated_deps == OutdatedDeps(current_deps, dependencies)
             upd == UpdatedDeps(current_deps, dependencies)
         IN  IF outdated_deps = << >>
             THEN /\ updated_deps' = current_deps
                  /\ pc' = "dep_missing"
                  /\ UNCHANGED << manifest_data, decisions, exit_code, cause >>
             ELSE /\ updated_deps' = upd
                  /\ IF non_interactive
                     THEN \E update_deps \in {"unset", "yes", "no"} :
                            /\ Decide("outdated",
                                      CASE update_deps = "unset" -> "default"
                                        [] update_deps = "yes" -> "flag"
                                        [] update_deps = "no" -> "flag_no")
                            /\ manifest_data' =
                                 [manifest_data EXCEPT !.dependencies =
                                    KeptDeps(update_deps # "no", upd)]
                            /\ pc' = "dep_missing"
                            /\ UNCHANGED << exit_code, cause >>
                     ELSE \E update \in {"yes", "no", "cancel"} :
                            /\ Decide("outdated", update)
                            /\ IF update = "cancel"
                               THEN /\ End("aborted", 0, "declined")
                                    /\ UNCHANGED manifest_data
                               ELSE /\ manifest_data' =
                                         [manifest_data EXCEPT !.dependencies =
                                            KeptDeps(update = "yes", upd)]
                                    /\ pc' = "dep_missing"
                                    /\ UNCHANGED << exit_code, cause >>
    /\ UNCHANGED << files, runs_left, non_interactive, project_type, version,
                    highest_source, namespace, pre, override, committed,
                    cmpvars, dlvars, txvars, runlog, gdvars, ccvars,
                    info_report, bvars >>

\* The list the missing pass writes: updated_deps extended, or, when
\* updated_deps is empty, list(current_dep_set) + missing_deps.
AddedDeps(missing_deps, dep_set) ==
    IF updated_deps # << >>
    THEN {updated_deps \o missing_deps}
    ELSE {l \o missing_deps : l \in ListsOf(dep_set)}

\* Lines 616-650: the missing pass.
DepMissing ==
    /\ pc = "dep_missing"
    /\ \E versions \in RegistryResults, refs \in CsprojRefs :
         LET detected_deps == detect_dependencies_from_csproj(refs, versions)
             current_dep_set ==
                 SeqToSet(IF updated_deps # << >> THEN updated_deps
                          ELSE current_deps)
             missing_deps == MissingDeps(detected_deps, current_dep_set)
         IN  IF missing_deps = << >>
             THEN /\ pc' = "version_commit"
                  /\ UNCHANGED << manifest_data, updated_deps, decisions,
                                  exit_code, cause >>
             ELSE IF non_interactive
             THEN \E add_missing_deps \in {"unset", "yes", "no"} :
                    /\ Decide("missing",
                              CASE add_missing_deps = "unset" -> "default"
                                [] add_missing_deps = "yes" -> "flag"
                                [] add_missing_deps = "no" -> "flag_no")
                    /\ IF add_missing_deps # "no"
                       THEN \E l \in AddedDeps(missing_deps, current_dep_set) :
                              /\ updated_deps' = l
                              /\ manifest_data' =
                                   [manifest_data EXCEPT !.dependencies = l]
                       ELSE UNCHANGED << manifest_data, updated_deps >>
                    /\ pc' = "version_commit"
                    /\ UNCHANGED << exit_code, cause >>
             ELSE \E add_deps_prompt \in {"yes", "no", "cancel"} :
                    /\ Decide("missing", add_deps_prompt)
                    /\ IF add_deps_prompt = "cancel"
                       THEN /\ End("aborted", 0, "declined")
                            /\ UNCHANGED << manifest_data, updated_deps >>
                       ELSE /\ IF add_deps_prompt = "yes"
                               THEN \E l \in AddedDeps(missing_deps,
                                                       current_dep_set) :
                                      /\ updated_deps' = l
                                      /\ manifest_data' =
                                           [manifest_data EXCEPT
                                              !.dependencies = l]
                               ELSE UNCHANGED << manifest_data, updated_deps >>
                            /\ pc' = "version_commit"
                            /\ UNCHANGED << exit_code, cause >>
    /\ UNCHANGED << files, runs_left, non_interactive, project_type, version,
                    highest_source, namespace, pre, override, committed,
                    cmpvars, dlvars, txvars, runlog, gdvars, ccvars,
                    info_report, bvars >>

\* Mutation of sync_version_file: the info file is never written.
sync_version_file_never(i, target_version) == i

\* sync_version_file: the info file after the call.
sync_version_file(i, target_version) ==
    IF i.state # "ok" THEN i
    ELSE LET current_version == IF i.Version = None THEN EmptyStr ELSE i.Version
         IN  IF current_version = target_version THEN i
             ELSE [i EXCEPT !.Version = target_version]

\* What sync_version_file returns, (updated, version_file_path), and
\* whether it printed its warning (line 381): the path is None only when no
\* info file is found; an exception gives (False, version_file).
SyncResult(i, target_version) ==
    [updated |-> i.state = "ok" /\ sync_version_file(i, target_version) # i,
     version_file_path |-> i.state # "missing",
     warned |-> i.state = "malformed"]

\* Lines 663-672: the lines printed about the info file.
InfoReport(i, target_version) ==
    LET r == SyncResult(i, target_version)
    IN  (IF r.warned THEN {"warning_sync"} ELSE {})
        \cup (IF r.updated THEN {"updated"}
              ELSE IF r.version_file_path THEN {"already"}
              ELSE {"warning_not_found"})

\* Mutation of ManifestWritten: the version is not set before the dump.
ManifestWritten_stale(data, ver) ==
    [state |-> "ok", author |-> data.author,
     version_number |-> data.version_number,
     dependencies |-> data.dependencies]

\* json.dump(manifest_data) after manifest_data['version_number'] = version.
ManifestWritten(data, ver) ==
    [state |-> "ok", author |-> data.author, version_number |-> ver,
     dependencies |-> data.dependencies]

\* Lines 652-672: the version commit.
VersionCommit ==
    /\ pc = "version_commit"
    /\ manifest' = ManifestWritten(manifest_data, version)
    /\ manifest_data' = [manifest_data EXCEPT !.version_number = version]
    /\ info' = sync_version_file(info, version)
    /\ info_report' = InfoReport(info, version)
    /\ committed' = TRUE
    /\ pc' = "bromaker_reconcile"
    /\ UNCHANGED << changelog, zips, prev_zips, zip_data, prev_data,
                    runs_left, non_interactive,
                    project_type, version, highest_source, namespace,
                    updated_deps, exit_code, pre, override, decisions, cause,
                    cmpvars, dlvars, txvars, runlog, gdvars, ccvars, bvars >>

\* Lines 674-707: BroMakerVersion of a bro's .mod.json.
BroMakerReconcile ==
    /\ pc = "bromaker_reconcile"
    /\ IF /\ project_type = "bro"
          /\ info.state = "ok"
          /\ info.BroMakerVersion # NoBroMaker
       THEN \E dep_versions \in RegistryResults :
              LET latest_bromaker_version == dep_versions.BroMaker
                  written == [info EXCEPT !.BroMakerVersion =
                                            latest_bromaker_version]
              IN  IF info.BroMakerVersion = latest_bromaker_version
                  THEN /\ pc' = "archive_assemble"
                       /\ UNCHANGED << info, decisions, exit_code, cause >>
                  ELSE IF non_interactive
                  THEN /\ Decide("bromaker", "default")
                       /\ info' = written
                       /\ pc' = "archive_assemble"
                       /\ UNCHANGED << exit_code, cause >>
                  ELSE \E update_bromaker \in {"yes", "no", "cancel"} :
                         /\ Decide("bromaker", update_bromaker)
                         /\ IF update_bromaker = "cancel"
                            THEN /\ End("aborted", 0, "declined")
                                 /\ UNCHANGED info
                            ELSE /\ info' = IF update_bromaker = "yes"
                                            THEN written ELSE info
                                 /\ pc' = "archive_assemble"
                                 /\ UNCHANGED << exit_code, cause >>
       ELSE /\ pc' = "archive_assemble"
            /\ UNCHANGED << info, decisions, exit_code, cause >>
    /\ UNCHANGED << manifest, changelog, zips, prev_zips, zip_data,
                    prev_data, runs_left,
                    non_interactive, locals, pre, override, committed,
                    cmpvars, dlvars, txvars, runlog, gdvars, ccvars,
                    info_report, bvars >>

\* The changelog file after the cleaned text was written back to it.
StripUnreleased(c) == [c EXCEPT !.text = changelog_cleaned(c.text)]

\* Mutation of ZipExists: the archive is never found in the releases folder.
ZipExists_never(zip_filename) == FALSE

\* os.path.exists(zip_path)
ZipExists(zip_filename) == zip_filename \in zips

\* Lines 709-798: the archive.  An archive of the same name is replaced
\* after a confirmation; otherwise every archive of the releases folder is
\* moved to "Previous Versions", over any archive of its name there.
ArchiveAssemble ==
    /\ pc = "archive_assemble"
    /\ LET zip_filename == ZipName(namespace, version)
           built == Archive(manifest, changelog_cleaned(changelog.text), info)
           Build == /\ changelog' = StripUnreleased(changelog)
                    /\ End("done", 0, "done")
           Replace == /\ Build
                      /\ zip_data' = [zip_data EXCEPT ![zip_filename] = built]
                      /\ produced' =
                             (produced
                                \ {<< zip_filename, zip_data[zip_filename] >>})
                             \cup {<< zip_filename, built >>}
                      /\ UNCHANGED << zips, prev_zips, prev_data >>
           Stop == UNCHANGED << changelog, zips, prev_zips, zip_data,
                                prev_data, produced >>
       IN  IF ZipExists(zip_filename)
           THEN IF non_interactive
                THEN \E overwrite \in BOOLEAN :
                       IF overwrite
                       THEN /\ Decide("archive", "flag")
                            /\ Replace
                       ELSE /\ Decide("archive", "noflag")
                            /\ End("failed", 1, "noflag")
                            /\ Stop
                ELSE \E overwrite_prompt \in {"yes", "no", "cancel"} :
                       /\ Decide("archive", overwrite_prompt)
                       /\ IF overwrite_prompt = "yes"
                          THEN Replace
                          ELSE /\ End("aborted", 0, "declined")
                               /\ Stop
           ELSE /\ prev_zips' = prev_zips \cup zips
                /\ prev_data' = zip_data @@ prev_data
                /\ zips' = {zip_filename}
                /\ zip_data' = zip_filename :> built
                /\ produced' = produced \cup {<< zip_filename, built >>}
                /\ Build
                /\ UNCHANGED decisions
    /\ UNCHANGED << manifest, info, runs_left, non_interactive, locals, pre,
                    override, committed, prior, cmpvars, dlvars, txvars,
                    gdvars, ccvars, info_report, bvars >>

Next ==
    \/ StartRun
    \/ Preconditions
    \/ VersionReconcile
    \/ AuthorReconcile
    \/ DepOutdated
    \/ DepMissing
    \/ VersionCommit
    \/ BroMakerReconcile
    \/ ArchiveAssemble

Spec == Init /\ [][Next]_vars

\* ------------------------------------------- compare_versions on its own
\* The strings compared: None, "", and every string of one to MaxSegs
\* segments.
VersionInputs ==
    {None, EmptyStr} \cup UNION {[1..n -> Segs] : n \in 1..MaxSegs}

\* One project, untouched while the comparator or the outdated pass is
\* exercised on its own.
OneProject ==
    /\ manifest = [state |-> "ok", author |-> "Author", version_number |-> V10,
                   dependencies |-> << RL200 >>]
    /\ info = [state |-> "ok", Version |-> V100, BroMakerVersion |-> "2.6.0"]
    /\ changelog = ChangelogOf(V200, Marked)
    /\ zips = {}
    /\ prev_zips = {}
    /\ zip_data = [n \in zips |-> EarlierArchive]
    /\ prev_data = [n \in prev_zips |-> EarlierArchive]
    /\ produced = ProducedBefore
    /\ runs_left = 0
    /\ RunIdle
    /\ pre = Snapshot

InitCmp ==
    /\ OneProject
    /\ DlIdle
    /\ TxIdle
    /\ GdIdle
    /\ CcIdle
    /\ info_report = {}
    /\ BIdle
    /\ cmp_a \in VersionInputs
    /\ cmp_b \in VersionInputs
    /\ cmp_base = << >>
    /\ cmp_r = << >>

\* The calls made on the pair: both orders, each string with itself and
\* with None.
Compared(a, b) ==
    [ab |-> compare_versions(a, b), ba |-> compare_versions(b, a),
     aa |-> compare_versions(a, a), bb |-> compare_versions(b, b),
     a_none |-> compare_versions(a, None),
     none_a |-> compare_versions(None, a)]

CompareCall ==
    /\ cmp_r = << >>
    /\ cmp_r' = << Compared(cmp_a, cmp_b) >>
    /\ cmp_base' = IF cmp_base = << >> THEN << compare_versions(cmp_a, cmp_b) >>
                   ELSE cmp_base
    /\ UNCHANGED << cmp_a, cmp_b, files, pc, runs_left, non_interactive,
                    locals, exit_code, history, dlvars, txvars, runlog,
                    gdvars, ccvars, info_report, bvars >>

\* v + ".0"
PadZero(v) == Append(v, "0")

\* The first string gets one more ".0" and is compared again.
PadA ==
    /\ cmp_r # << >>
    /\ cmp_a # None
    /\ Len(cmp_a) <= MaxSegs
    /\ cmp_a' = PadZero(cmp_a)
    /\ cmp_r' = << >>
    /\ UNCHANGED << cmp_b, cmp_base, files, pc, runs_left, non_interactive,
                    locals, exit_code, history, dlvars, txvars, runlog,
                    gdvars, ccvars, info_report, bvars >>

\* The second string gets one more ".0" and is compared again.
PadB ==
    /\ cmp_r # << >>
    /\ cmp_b # None
    /\ Len(cmp_b) <= MaxSegs
    /\ cmp_b' = PadZero(cmp_b)
    /\ cmp_r' = << >>
    /\ UNCHANGED << cmp_a, cmp_base, files, pc, runs_left, non_interactive,
                    locals, exit_code, history, dlvars, txvars, runlog,
                    gdvars, ccvars, info_report, bvars >>

NextCmp == CompareCall \/ PadA \/ PadB

SpecCmp == InitCmp /\ [][NextCmp]_vars

\* ------------------------------------------ the outdated pass on its own
PlainDep == << "plain" >>
DepStrings == {UMM100, UMM102, UMMShort, RL200, Other100, PlainDep}

\* The dependency lists the pass is run on.
DepListInputs == UNION {[1..n -> DepStrings] : n \in 0..MaxDeps}

InitDeps ==
    /\ OneProject
    /\ CmpIdle
    /\ TxIdle
    /\ GdIdle
    /\ CcIdle
    /\ info_report = {}
    /\ BIdle
    /\ dl_deps \in DepListInputs
    /\ dl_reg \in RegistryResults
    /\ dl_staged = << >>
    /\ dl_passes = 0

\* One outdated pass whose staged replacements are applied to the list.
OutdatedPass ==
    /\ dl_passes < MaxPasses
    /\ dl_staged' = OutdatedDeps(dl_deps, get_dependencies(dl_reg))
    /\ dl_deps' = UpdatedDeps(dl_deps, get_dependencies(dl_reg))
    /\ dl_passes' = dl_passes + 1
    /\ UNCHANGED << dl_reg, files, pc, runs_left, non_interactive, locals,
                    exit_code, history, cmpvars, txvars, runlog, gdvars,
                    ccvars, info_report, bvars >>

\* The registry publishes other versions: the passes made so far no longer
\* count as made against the current registry result.
RegistryChange ==
    /\ dl_passes > 0
    /\ dl_reg' \in RegistryResults \ {dl_reg}
    /\ dl_passes' = 0
    /\ UNCHANGED << dl_deps, dl_staged, files, pc, runs_left, non_interactive,
                    locals, exit_code, history, cmpvars, txvars, runlog,
                    gdvars, ccvars, info_report, bvars >>

NextDeps == OutdatedPass \/ RegistryChange

SpecDeps == InitDeps /\ [][NextDeps]_vars

\* ------------------------------------------------ the parser on its own
V123 == << "1", "2", "3" >>
V120 == << "1", "2", "0" >>

\* The lines a changelog text is drawn from.
HUnrel == HeaderLine(V123, Marked)
HColonUnrel == HeaderLine(V123, << ":", " ", "(Unreleased)" >>)
HPlain == << "##", " ", "1", ".", "2", ".", "0" >>
HTwo == << "##", " ", "v", "1", ".", "2" >>
HFour == HeaderLine(V123, << ".", "4" >>)
HWord == HeaderLine(V123, << " ", "unreleased" >>)
HTwice == HeaderLine(V123, Marked \o Marked)
Indented == << " ", "-", " ", "B", " " >>
MarkerProse == << "(unreleased)", " ", "A" >>
Blank == << >>
LineKinds == {HUnrel, HColonUnrel, HPlain, HTwo, HFour, HWord, HTwice,
              Bullet, Indented, Prose, MarkerProse, Blank}

\* Every text of up to MaxLines lines, with and without the line break at
\* its end.
ChangelogTexts ==
    LET joined == {JoinLines(ls) :
                      ls \in UNION {[1..n -> LineKinds] : n \in 0..MaxLines}}
    IN  joined \cup {SubSeq(t, 1, Len(t) - 1) : t \in joined \ {<< >>}}

InitParse ==
    /\ OneProject
    /\ CmpIdle
    /\ DlIdle
    /\ tx_orig \in ChangelogTexts
    /\ tx_text = tx_orig
    /\ tx_prev = << >>
    /\ tx_result = << >>
    /\ tx_strips = 0
    /\ tx_op = "none"
    /\ tx_adds = 0
    /\ GdIdle
    /\ CcIdle
    /\ info_report = {}
    /\ BIdle

\* The three readers are called on the file holding the text.
ParseCall ==
    /\ tx_result = << >>
    /\ LET c == [state |-> "ok", text |-> tx_text]
       IN  tx_result' = << [latest |-> get_latest_version_entries(c),
                            has |-> has_unreleased_version(c),
                            unreleased |-> get_unreleased_entries(c)] >>
    /\ UNCHANGED << tx_orig, tx_text, tx_prev, tx_strips, tx_op, tx_adds,
                    files, pc, runs_left,
                    non_interactive, locals, exit_code, history, cmpvars,
                    dlvars, runlog, gdvars, ccvars, info_report, bvars >>

\* The marker is stripped as at packaging time and the text written back.
StripCall ==
    /\ tx_strips < MaxStrips
    /\ tx_prev' = tx_text
    /\ tx_text' = changelog_cleaned(tx_text)
    /\ tx_strips' = tx_strips + 1
    /\ tx_result' = << >>
    /\ tx_op' = "strip"
    /\ UNCHANGED << tx_orig, tx_adds, files, pc, runs_left, non_interactive, locals,
                    exit_code, history, cmpvars, dlvars, runlog, gdvars,
                    ccvars, info_report, bvars >>

NextParse == ParseCall \/ StripCall

SpecParse == InitParse /\ [][NextParse]_vars

\* --------------------------------------------- changelog add on its own
\* The lines of the changelogs an entry is added to: version headers marked
\* and not, a marked header of an older version, headings that are no
\* version header, a marked header that is indented, entries and prose.
HOlder == HeaderLine(V120, Marked)
HNotes == << "##", " ", "A", " ", "unreleased" >>
HInner == << " " >> \o HUnrel
AddLineKinds == {HUnrel, HPlain, HOlder, HNotes, HInner, Bullet, Prose}

AddTexts ==
    LET joined == {JoinLines(ls) :
                      ls \in UNION {[1..n -> AddLineKinds] : n \in 0..MaxLines}}
    IN  joined \cup {SubSeq(t, 1, Len(t) - 1) : t \in joined \ {<< >>}}

\* The message of changelog add.
Messages == {"N"}

InitAdd ==
    /\ OneProject
    /\ CmpIdle
    /\ DlIdle
    /\ tx_orig \in AddTexts
    /\ tx_text = tx_orig
    /\ tx_prev = << >>
    /\ tx_result = << >>
    /\ tx_strips = 0
    /\ tx_op = "none"
    /\ tx_adds = 0
    /\ GdIdle
    /\ CcIdle
    /\ info_report = {}
    /\ BIdle

\* changelog add: add_changelog_entry on the file holding the text.
AddCall ==
    /\ tx_adds < MaxAdds
    /\ \E message \in Messages :
         LET r == add_changelog_entry([state |-> "ok", text |-> tx_text],
                                      message)
         IN  /\ tx_text' = r.file.text
             /\ tx_op' = IF r.ok THEN "added" ELSE "refused"
    /\ tx_prev' = tx_text
    /\ tx_adds' = tx_adds + 1
    /\ tx_result' = << >>
    /\ UNCHANGED << tx_orig, tx_strips, files, pc, runs_left, non_interactive,
                    locals, exit_code, history, cmpvars, dlvars, runlog, gdvars,
                    ccvars, info_report, bvars >>

NextAdd == ParseCall \/ AddCall

SpecAdd == InitAdd /\ [][NextAdd]_vars

\* --------------------------------------------- one project, one release
V190 == << "1", "9", "0" >>

\* A project whose changelog is "## v2.0.0 (unreleased)" with one entry
\* while the manifest and the info file are at 1.9.0; no archive yet.
InitScenario ==
    /\ manifest = [state |-> "ok", author |-> "Author", version_number |-> V190,
                   dependencies |-> << RL200 >>]
    /\ info = [state |-> "ok", Version |-> V190, BroMakerVersion |-> "2.6.0"]
    /\ changelog = ChangelogOf(V200, Marked)
    /\ zips = {}
    /\ prev_zips = {}
    /\ zip_data = [n \in zips |-> EarlierArchive]
    /\ prev_data = [n \in prev_zips |-> EarlierArchive]
    /\ produced = ProducedBefore
    /\ runs_left = 1
    /\ RunIdle
    /\ pre = Snapshot
    /\ CmpIdle
    /\ DlIdle
    /\ TxIdle
    /\ GdIdle
    /\ CcIdle
    /\ info_report = {}
    /\ BIdle

SpecScenario == InitScenario /\ [][Next]_vars

\* ------------------------------------- one project, every header form
\* What follows the version in the latest header: nothing, the marker, a
\* colon and the capitalised marker, the bare word, the marker twice.
HeaderRests ==
    {Released, Marked, << ":", " ", "(Unreleased)" >>,
     << " ", "unreleased" >>, Marked \o Marked}

\* The project of InitScenario with each of the header forms.
InitForms ==
    /\ manifest = [state |-> "ok", author |-> "Author", version_number |-> V190,
                   dependencies |-> << RL200 >>]
    /\ info = [state |-> "ok", Version |-> V190, BroMakerVersion |-> "2.6.0"]
    /\ changelog \in {ChangelogOf(V200, rest) : rest \in HeaderRests}
    /\ zips = {}
    /\ prev_zips = {}
    /\ zip_data = [n \in zips |-> EarlierArchive]
    /\ prev_data = [n \in prev_zips |-> EarlierArchive]
    /\ produced = ProducedBefore
    /\ runs_left = 1
    /\ RunIdle
    /\ pre = Snapshot
    /\ CmpIdle
    /\ DlIdle
    /\ TxIdle
    /\ GdIdle
    /\ CcIdle
    /\ info_report = {}
    /\ BIdle

SpecForms == InitForms /\ [][Next]_vars

\* ------------------------------------------------- runs one after another
\* Projects not packaged before: the changelog ahead of or behind the
\* manifest, the info file readable or not, the author set or not.
FreshProjects ==
    /\ manifest \in [state : {"ok"}, author : {"Author", "Unknown"},
                     version_number : {V10, V200},
                     dependencies : {<< UMM102 >>}]
    /\ info \in {NoInfo("malformed"),
                 [state |-> "ok", Version |-> V100, BroMakerVersion |-> "2.6.0"]}
    /\ changelog \in {ChangelogOf(V200, Marked), ChangelogOf(V100, Released)}
    /\ zips = {}
    /\ prev_zips = {}
    /\ zip_data = [n \in zips |-> EarlierArchive]
    /\ prev_data = [n \in prev_zips |-> EarlierArchive]

\* The manifest and the info file after a run with --version 1.0.0.
Manifest100 == [state |-> "ok", author |-> "Author", version_number |-> V100,
                dependencies |-> << UMM102 >>]
Info100 == [state |-> "ok", Version |-> V100, BroMakerVersion |-> "2.6.0"]

\* A project packaged twice before: release 2.0.0 first, then 1.0.0 again
\* with --version 1.0.0, which moved the archive of 2.0.0 to
\* "Previous Versions".
RereleasedProject ==
    /\ manifest = Manifest100
    /\ info = Info100
    /\ changelog = ChangelogOf(V200, Released)
    /\ zips = {ZipName("Author", V100)}
    /\ prev_zips = {ZipName("Author", V200)}
    /\ zip_data = [n \in zips |->
                     Archive(Manifest100, changelog.text, Info100)]
    /\ prev_data = [n \in prev_zips |-> EarlierArchive]

\* Two packaging runs, one after the other.
InitRuns ==
    /\ FreshProjects \/ RereleasedProject
    /\ produced = ProducedBefore
    /\ runs_left = 2
    /\ RunIdle
    /\ pre = Snapshot
    /\ CmpIdle
    /\ DlIdle
    /\ TxIdle
    /\ GdIdle
    /\ CcIdle
    /\ info_report = {}
    /\ BIdle

SpecRuns == InitRuns /\ [][Next]_vars

\* ------------------------------------- get_dependency_versions on its own
\* The cache files a call can find: none, one that cannot be opened, one
\* that is no JSON or no JSON object, objects of any shape, and objects an
\* earlier call wrote at time 0, 1 or CACHE_DURATION.
InitCaches ==
    {NoCache, CacheFile("unreadable"), CacheFile("invalid"),
     CacheFile("nonobject")}
    \cup [kind : {"object"}, ts_kind : {"number"},
          timestamp : {0, 1, CACHE_DURATION},
          versions : {FALLBACK_DEPENDENCY_VERSIONS, EmptyMap, PartialMap},
          writer : {"other"}]
    \cup [kind : {"object"}, ts_kind : {"absent", "text"}, timestamp : {0},
          versions : {FALLBACK_DEPENDENCY_VERSIONS}, writer : {"other"}]
    \cup {CacheWritten(t, v) : t \in {0, 1, CACHE_DURATION},
                               v \in RegistryResults}

InitCache ==
    /\ OneProject
    /\ CmpIdle
    /\ DlIdle
    /\ TxIdle
    /\ cache \in InitCaches
    /\ now = CACHE_DURATION
    /\ ticks = 0
    /\ gd_pc = "idle" /\ gd_versions = EmptyMap /\ gd_outcomes = << >>
    /\ gd_result = EmptyMap /\ gd_pre = NoCache /\ gd_start = 0
    /\ gd_wrote = "no" /\ gd_written = NoCache
    /\ CcIdle
    /\ info_report = {}
    /\ BIdle

Others == << files, pc, runs_left, non_interactive, locals, exit_code,
             history, runlog, cmpvars, dlvars, txvars, ccvars,
             info_report, bvars >>

\* Lines 52-65: the call reads the cache file.  A file that is missing,
\* cannot be opened or is no JSON is passed over; .get on a value that is
\* no object and the subtraction of a text raise AttributeError and
\* TypeError, which are not caught.
GdCall ==
    /\ gd_pc \in {"idle", "returned", "raised"}
    /\ gd_pre' = cache
    /\ gd_start' = now
    /\ gd_outcomes' = << >>
    /\ gd_versions' = EmptyMap
    /\ gd_wrote' = "no"
    /\ gd_written' = NoCache
    /\ IF cache.kind \in {"missing", "unreadable", "invalid"}
       THEN gd_pc' = "lookup" /\ gd_result' = EmptyMap
       ELSE IF cache.kind = "nonobject" \/ cache.ts_kind = "text"
       THEN gd_pc' = "raised" /\ gd_result' = EmptyMap
       ELSE IF Fresh(now - CacheTime(cache)) /\ Truthy(cache.versions)
       THEN gd_pc' = "returned" /\ gd_result' = cache.versions
       ELSE gd_pc' = "lookup" /\ gd_result' = EmptyMap
    /\ UNCHANGED << cache, now, ticks, Others >>

\* Lines 68-73 and 35-47: the lookup of the next dependency.  A JSON body
\* that is no object raises AttributeError out of the call.
GdLookup ==
    /\ gd_pc = "lookup"
    /\ \E outcome \in FetchOutcomes :
         LET dep_name == DepKeys[Len(gd_outcomes) + 1]
             fetched == fetch_thunderstore_version(dep_name, outcome)
         IN  /\ gd_outcomes' = Append(gd_outcomes, outcome)
             /\ IF outcome = "not_object"
                THEN gd_pc' = "raised" /\ UNCHANGED gd_versions
                ELSE /\ gd_versions' =
                          (dep_name :>
                             (IF fetched # "" THEN fetched
                              ELSE FALLBACK_DEPENDENCY_VERSIONS[dep_name]))
                          @@ gd_versions
                     /\ gd_pc' = IF Len(gd_outcomes) + 1 = Len(DepKeys)
                                 THEN "write" ELSE "lookup"
    /\ UNCHANGED << cache, now, ticks, gd_result, gd_pre, gd_start, gd_wrote,
                    gd_written, Others >>

\* Lines 75-86: the cache is written and the map returned.  An OSError is
\* passed over; it leaves the file as it was or, raised after open()
\* truncated the file, empty.
GdWrite ==
    /\ gd_pc = "write"
    /\ \/ /\ cache' = CacheWritten(now, gd_versions)
          /\ gd_wrote' = "yes"
          /\ gd_written' = CacheWritten(now, gd_versions)
       \/ /\ cache' \in {cache, CacheFile("invalid")}
          /\ gd_wrote' = "oserror"
          /\ UNCHANGED gd_written
    /\ gd_pc' = "returned"
    /\ gd_result' = gd_versions
    /\ UNCHANGED << now, ticks, gd_versions, gd_outcomes, gd_pre, gd_start,
                    Others >>

\* Time passes between two calls.
Tick ==
    /\ gd_pc \in {"idle", "returned", "raised"}
    /\ ticks < MaxTicks
    /\ \E d \in {1, CACHE_DURATION - 1} : now' = now + d
    /\ ticks' = ticks + 1
    /\ UNCHANGED << cache, gd_pc, gd_versions, gd_outcomes, gd_result, gd_pre,
                    gd_start, gd_wrote, gd_written, Others >>

\* clear_cache: the file is unlinked.
ClearCache ==
    /\ gd_pc \in {"idle", "returned", "raised"}
    /\ cache.kind # "missing"
    /\ cache' = NoCache
    /\ UNCHANGED << now, ticks, gd_pc, gd_versions, gd_outcomes, gd_result,
                    gd_pre, gd_start, gd_wrote, gd_written, Others >>

NextCache == GdCall \/ GdLookup \/ GdWrite \/ Tick \/ ClearCache

SpecCache == InitCache /\ [][NextCache]_vars

\* ----------------------------- get_dependency_versions, calls in parallel
\* The cache file the calls find: none, or a record an earlier call wrote,
\* fresh or stale.
ConcCaches ==
    {NoCache, CacheWritten(1, NewerVersions),
     CacheWritten(0, FALLBACK_DEPENDENCY_VERSIONS)}

\* repr(time.time()) has between one and seven digits after the point, so
\* the dumped records differ in length; counted in digits over the shortest.
FracDigits == {1, 7}

\* A lookup brings a version or times out.
ConcOutcomes == {"ok", "timeout"}

InitConc ==
    /\ OneProject
    /\ CmpIdle
    /\ DlIdle
    /\ TxIdle
    /\ cache \in ConcCaches
    /\ now = CACHE_DURATION
    /\ ticks = 0
    /\ gd_pc = "idle" /\ gd_versions = EmptyMap /\ gd_outcomes = << >>
    /\ gd_result = EmptyMap /\ gd_pre = NoCache /\ gd_start = 0
    /\ gd_wrote = "no" /\ gd_written = NoCache
    /\ cc_pc = [p \in Procs |-> "start"]
    /\ cc_versions = [p \in Procs |-> EmptyMap]
    /\ cc_result = [p \in Procs |-> EmptyMap]
    /\ cc_frac = [p \in Procs |-> 0]
    /\ cc_wrote = [p \in Procs |-> NoCache]
    /\ cc_size \in IF cache.kind = "missing" THEN {0} ELSE FracDigits
    /\ info_report = {}
    /\ BIdle

Rest == << files, pc, runs_left, non_interactive, locals, exit_code, history,
           runlog, cmpvars, dlvars, txvars, now, ticks, gd_pc, gd_versions,
           gd_outcomes, gd_result, gd_pre, gd_start, gd_wrote, gd_written,
           info_report, bvars >>

\* Lines 52-65 of call p: the cache file is opened and read.
CcRead(p) ==
    /\ cc_pc[p] = "start"
    /\ IF cache.kind \in {"missing", "unreadable", "invalid"}
       THEN cc_pc' = [cc_pc EXCEPT ![p] = "lookup"] /\ UNCHANGED cc_result
       ELSE IF cache.kind = "nonobject" \/ cache.ts_kind = "text"
       THEN cc_pc' = [cc_pc EXCEPT ![p] = "raised"] /\ UNCHANGED cc_result
       ELSE IF Fresh(now - CacheTime(cache)) /\ Truthy(cache.versions)
       THEN /\ cc_pc' = [cc_pc EXCEPT ![p] = "returned"]
            /\ cc_result' = [cc_result EXCEPT ![p] = cache.versions]
       ELSE cc_pc' = [cc_pc EXCEPT ![p] = "lookup"] /\ UNCHANGED cc_result
    /\ UNCHANGED << cache, cc_versions, cc_frac, cc_wrote, cc_size, Rest >>

\* Lines 68-73 of call p: the lookup of the next dependency.
CcLookup(p) ==
    /\ cc_pc[p] = "lookup"
    /\ \E outcome \in ConcOutcomes :
         LET done == Cardinality(DOMAIN cc_versions[p])
             dep_name == DepKeys[done + 1]
             fetched == fetch_thunderstore_version(dep_name, outcome)
         IN  /\ cc_versions' =
                  [cc_versions EXCEPT ![p] =
                     (dep_name :>
                        (IF fetched # "" THEN fetched
                         ELSE FALLBACK_DEPENDENCY_VERSIONS[dep_name])) @@ @]
             /\ cc_pc' = [cc_pc EXCEPT ![p] =
                            IF done + 1 = Len(DepKeys) THEN "open"
                            ELSE "lookup"]
    /\ UNCHANGED << cache, cc_result, cc_frac, cc_wrote, cc_size, Rest >>

\* Lines 77-81 of call p: the record is built and open(cache_file, 'w')
\* truncates the file.
CcOpen(p) ==
    /\ cc_pc[p] = "open"
    /\ \E digits \in FracDigits : cc_frac' = [cc_frac EXCEPT ![p] = digits]
    /\ cache' = CacheFile("invalid")
    /\ cc_size' = 0
    /\ cc_pc' = [cc_pc EXCEPT ![p] = "dump"]
    /\ UNCHANGED << cc_versions, cc_result, cc_wrote, Rest >>

\* Lines 82-86 of call p: the record is written from offset 0 of the file
\* as it is by now; what a longer record left behind it stays, and the
\* file is no JSON.
CcDump(p) ==
    /\ cc_pc[p] = "dump"
    /\ IF cc_size <= cc_frac[p]
       THEN /\ cache' = CacheWritten(now, cc_versions[p])
            /\ cc_size' = cc_frac[p]
       ELSE /\ cache' = CacheFile("invalid")
            /\ UNCHANGED cc_size
    /\ cc_wrote' = [cc_wrote EXCEPT ![p] = CacheWritten(now, cc_versions[p])]
    /\ cc_result' = [cc_result EXCEPT ![p] = cc_versions[p]]
    /\ cc_pc' = [cc_pc EXCEPT ![p] = "returned"]
    /\ UNCHANGED << cc_versions, cc_frac, Rest >>

NextConc ==
    \E p \in Procs : CcRead(p) \/ CcLookup(p) \/ CcOpen(p) \/ CcDump(p)

SpecConc == InitConc /\ [][NextConc]_vars

\* ------------------------------------------ several projects, one command
\* The projects found, in the order they are listed.
Listing == << "P1", "P2", "P3" >>
Listed == SeqToSet(Listing)

\* The names the packaging loop goes through: every project (package with
\* "Package all", unreleased with --package-all or "Package all"), the
\* names given with --package in the order given, known or not, or the
\* projects ticked in the checkbox, in the order listed.
Batches(mode) ==
    CASE mode \in {"package_all", "unreleased_all"} -> {Listing}
      [] mode = "unreleased_named" ->
           UNION {[1..n -> Listed \cup {"X"}] : n \in 1..MaxNamed}
      [] mode = "unreleased_selected" ->
           {SelectSeq(Listing, LAMBDA x : x \in S) :
               S \in (SUBSET Listed) \ {{}}}

InitBatch ==
    /\ OneProject
    /\ CmpIdle
    /\ DlIdle
    /\ TxIdle
    /\ GdIdle
    /\ CcIdle
    /\ info_report = {}
    /\ b_mode \in {"package_all", "unreleased_all", "unreleased_named",
                   "unreleased_selected"}
    /\ b_batch \in Batches(b_mode)
    /\ b_pos = 0
    /\ b_log = << >>
    /\ b_disk = {}
    /\ b_state = "running"

NotBatch == << files, pc, runs_left, non_interactive, locals, exit_code,
               history, runlog, cmpvars, dlvars, txvars, gdvars, ccvars,
               info_report >>

\* Mutation of Raises: a cancelled do_package returns to the loop.
Raises_failure(outcome) == outcome \in {"failed", "crashed"}

\* do_package returns only when it reached DONE; it ends every other way
\* by raising typer.Exit or an exception, which no loop catches.
Raises(outcome) == outcome # "done"

\* Lines 1343-1346: a name given with --package that is not among the
\* unreleased projects is passed over with a warning.
BSkip ==
    /\ b_state = "running"
    /\ b_pos < Len(b_batch)
    /\ b_mode = "unreleased_named"
    /\ b_batch[b_pos + 1] \notin Listed
    /\ b_pos' = b_pos + 1
    /\ UNCHANGED << b_mode, b_batch, b_log, b_disk, b_state, NotBatch >>

\* One pass of the loop: do_package on the next name.  The call ends in one
\* of its terminal positions; it has written files when it reached DONE and
\* may have when it ended otherwise.
BPackage ==
    /\ b_state = "running"
    /\ b_pos < Len(b_batch)
    /\ b_batch[b_pos + 1] \in Listed
    /\ \E outcome \in Terminal, written \in BOOLEAN :
         /\ outcome = "done" => written
         /\ b_log' = Append(b_log, [name |-> b_batch[b_pos + 1],
                                    outcome |-> outcome])
         /\ b_disk' = IF written THEN b_disk \cup {b_batch[b_pos + 1]}
                      ELSE b_disk
         /\ b_state' = IF Raises(outcome) THEN "exited" ELSE "running"
    /\ b_pos' = b_pos + 1
    /\ UNCHANGED << b_mode, b_batch, NotBatch >>

\* The loop is through and the command returns.
BReturn ==
    /\ b_state = "running"
    /\ b_pos = Len(b_batch)
    /\ b_state' = "returned"
    /\ UNCHANGED << b_mode, b_batch, b_pos, b_log, b_disk, NotBatch >>

NextBatch == BSkip \/ BPackage \/ BReturn

SpecBatch == InitBatch /\ [][NextBatch]_vars

\* ---------------------------------------------------------------- claims
\* The candidates the run read, taken from the files as they were at its
\* start (no file is written before the version commit).
PreChangelogVersion == get_version_from_changelog(pre.changelog)
PreCandidates ==
    {PreChangelogVersion, ManifestVersionOf(pre.manifest),
     get_version_from_info_json(pre.info)} \ {None}

\* The run went through version reconciliation without an override.
Reconciled ==
    /\ Falsy(override)
    /\ pc \notin {"idle", "preconditions", "version_reconcile"}
    /\ cause # "precondition"

\* C1: without a version override the selected version is one of the present
\* candidates and compares greater than or equal to every present
\* well-formed candidate; the run fails for want of a version only when no
\* candidate is present.
C1_SelectsHighest ==
    Reconciled =>
        IF PreCandidates = {}
        THEN pc = "failed" /\ cause = "no_version"
        ELSE /\ cause # "no_version"
             /\ version \in PreCandidates
             /\ \A c \in PreCandidates :
                    WellFormed(c) => compare_versions(version, c) >= 0

\* The info file's version won over a lower changelog and manifest.
C1_Witness ==
    /\ Reconciled
    /\ pc = "author_reconcile"
    /\ PreChangelogVersion = V100
    /\ ManifestVersionOf(pre.manifest) = V10
    /\ version = V200
    /\ highest_source = "Info.json/.mod.json"

\* C2: on well-formed version strings compare_versions is antisymmetric,
\* gives 0 on equal arguments, and keeps its result when either side is
\* right-padded with ".0".
C2_Antisymmetric ==
    (cmp_r # << >> /\ WellFormed(cmp_a) /\ WellFormed(cmp_b)) =>
        /\ cmp_r[1].ab = -cmp_r[1].ba
        /\ cmp_r[1].aa = 0
        /\ cmp_r[1].bb = 0
        /\ cmp_r[1].ab = cmp_base[1]

\* "10.2" against "10.2.0.0": equal after two paddings of the second.
C2_Witness ==
    /\ cmp_r # << >>
    /\ cmp_a = << "10", "2" >>
    /\ cmp_b = << "10", "2", "0", "0" >>
    /\ cmp_r[1].ab = 0

\* C3: None is below every present version string and every present
\* version string is above None.
C3_AbsentLowest ==
    (cmp_r # << >> /\ ~Falsy(cmp_a)) =>
        /\ cmp_r[1].none_a = -1
        /\ cmp_r[1].a_none = 1

\* A present string with a non-numeric segment is above None as well.
C3_Witness ==
    /\ cmp_r # << >>
    /\ cmp_a = << "2", "x" >>
    /\ cmp_r[1].a_none = 1
    /\ cmp_r[1].none_a = -1

\* The changelog version the run read is strictly below the selected one.
PreChangelogBehind ==
    /\ PreChangelogVersion # None
    /\ compare_versions(PreChangelogVersion, version) < 0

\* C4: with no override and a changelog version strictly below the selected
\* version, the manifest is written only after a yes at the prompt or, in
\* non-interactive mode, with allow_outdated_changelog; when the changelog
\* version is not below the selected one nothing is asked for.
C4_OutdatedChangelogGate ==
    /\ (Reconciled /\ committed /\ PreChangelogBehind) =>
           \/ (~non_interactive /\ decisions["changelog"] = "yes")
           \/ (non_interactive /\ decisions["changelog"] = "flag")
    /\ (Reconciled /\ version # None /\ ~PreChangelogBehind) =>
           decisions["changelog"] = "none"

\* A changelog tied with the info file at the top went on to the commit
\* with nothing asked.
C4_Witness ==
    /\ Reconciled
    /\ committed
    /\ PreChangelogVersion = V200
    /\ get_version_from_info_json(pre.info) = V200
    /\ version = V200
    /\ decisions["changelog"] = "none"

\* The run ended because a confirmable condition was declined.
Declined == cause \in {"declined", "noflag"}

\* C5 as stated: a run that ends because a recoverable condition was
\* declined, by an answer or by a missing flag, ends with the cancellation
\* status 0.
C5_DeclineIsCancellation ==
    Declined => (pc = "aborted" /\ exit_code = 0)

\* C5 amended: a run ended by a negative or cancelled answer ends with the
\* cancellation status 0; a run ended in non-interactive mode by a missing
\* flag or a missing author ends with the failure status 1.
C5_DeclineByAnswerIsCancellation ==
    /\ cause = "declined" =>
           (pc = "aborted" /\ exit_code = 0 /\ ~non_interactive)
    /\ cause = "noflag" =>
           (pc = "failed" /\ exit_code = 1 /\ non_interactive)

\* The overwrite of an existing archive was refused at the prompt.
C5_Witness ==
    /\ pc = "aborted"
    /\ decisions["archive"] = "no"
    /\ exit_code = 0

Prompted(c) == decisions[c] \in {"yes", "no", "cancel"}

\* C6 as stated: in non-interactive mode nothing is prompted and a change is
\* applied only under an explicit flag: without one the dependency list and
\* the BroMakerVersion stay as they were.
C6_NonInteractiveNeedsFlag ==
    non_interactive =>
        /\ \A c \in Conds : ~Prompted(c)
        /\ (committed /\ (decisions["outdated"] = "default"
                          \/ decisions["missing"] = "default")) =>
               manifest.dependencies = pre.manifest.dependencies
        /\ decisions["bromaker"] = "default" =>
               info.BroMakerVersion = pre.info.BroMakerVersion

\* C6 amended: in non-interactive mode nothing is prompted; an outdated
\* changelog is packaged and an existing archive replaced only under their
\* flags, a missing author is never set; outdated dependencies are replaced
\* unless update_deps is False, and then stay when the missing pass adds
\* nothing; an outdated BroMakerVersion is always updated.
C6_NonInteractiveDefaults ==
    non_interactive =>
        /\ \A c \in Conds : ~Prompted(c)
        /\ (Reconciled /\ committed /\ PreChangelogBehind) =>
               decisions["changelog"] = "flag"
        /\ committed => /\ decisions["author"] = "none"
                        /\ manifest.author = pre.manifest.author
        /\ (pc = "done" /\ ZipName(namespace, version) \in pre.zips) =>
               decisions["archive"] = "flag"
        /\ (committed /\ decisions["outdated"] \in {"default", "flag"}) =>
               manifest.dependencies # pre.manifest.dependencies
        /\ (committed /\ decisions["outdated"] = "flag_no"
              /\ decisions["missing"] \in {"none", "flag_no"}) =>
               manifest.dependencies = pre.manifest.dependencies
        /\ (committed /\ decisions["missing"] = "flag_no") =>
               Len(manifest.dependencies) = Len(pre.manifest.dependencies)
        /\ decisions["bromaker"] \in {"none", "default"}
        /\ decisions["bromaker"] = "default" =>
               info.BroMakerVersion # pre.info.BroMakerVersion

\* A non-interactive run without dependency flags replaced the outdated
\* entries and finished.
C6_Witness ==
    /\ non_interactive
    /\ pc = "done"
    /\ decisions["outdated"] = "default"
    /\ decisions["missing"] = "default"
    /\ manifest.dependencies # pre.manifest.dependencies

\* C7: a run that ends before the version commit leaves the manifest, the
\* info file, the changelog and the archives as they were; a failed
\* precondition, no version anywhere and a missing author in
\* non-interactive mode end with the failure status.
C7_NoWriteBeforeCommit ==
    /\ ~committed => Snapshot = pre
    /\ (\/ cause \in {"precondition", "no_version"}
        \/ decisions["author"] = "noflag") =>
           (pc = "failed" /\ exit_code = 1 /\ ~committed)

\* The run was cancelled at the missing-dependency prompt after the author
\* had been typed and the dependency update accepted.
C7_Witness ==
    /\ pc = "aborted"
    /\ ~committed
    /\ decisions["author"] = "yes"
    /\ decisions["outdated"] = "yes"
    /\ decisions["missing"] = "cancel"
    /\ manifest_data.author # manifest.author
    /\ manifest_data.dependencies # manifest.dependencies

\* a occurs in b as a subsequence: same entries, same order.
RECURSIVE IsSubseq(_, _)
IsSubseq(a, b) ==
    IF a = << >> THEN TRUE
    ELSE IF b = << >> THEN FALSE
    ELSE IF Head(a) = Head(b) THEN IsSubseq(Tail(a), Tail(b))
    ELSE IsSubseq(a, Tail(b))

\* C8: when the outdated batch is declined, by answer or by update_deps
\* False, the manifest the run writes still holds every entry it had before,
\* in order and with its stored version.
C8_DeclinedUpdateKeepsEntries ==
    (committed /\ decisions["outdated"] \in {"no", "flag_no"}) =>
        IsSubseq(pre.manifest.dependencies, manifest.dependencies)

\* No two entries with a hyphen share the part up to the last hyphen.
NoDuplicatePrefix(deps) ==
    \A i, j \in 1..Len(deps) :
        (i < j /\ Len(deps[i]) >= 2 /\ Len(deps[j]) >= 2) =>
            NamePart(deps[i]) # NamePart(deps[j])

\* C9: a manifest whose dependency list has no duplicate prefix is written
\* back without a duplicate prefix, whatever is answered and whatever the
\* registry reads return.
C9_NoDuplicatePrefix ==
    (committed /\ NoDuplicatePrefix(pre.manifest.dependencies)) =>
        NoDuplicatePrefix(manifest.dependencies)

\* C10: a second outdated pass against the same registry result, on the
\* list the first pass's replacements were applied to, stages nothing:
\* every entry that matches a registry entry equals the registry's string.
C10_SecondPassStagesNothing ==
    dl_passes >= 2 =>
        /\ dl_staged = << >>
        /\ \A i \in 1..Len(dl_deps) :
               (Len(dl_deps[i]) >= 2
                  /\ FirstMatch(dl_deps[i], get_dependencies(dl_reg)) # 0) =>
                   dl_deps[i] \in {get_dependencies(dl_reg)[DepKeys[k]] :
                                      k \in 1..Len(DepKeys)}

\* The first pass replaced a short-prefixed UMM entry by the registry's
\* newer string, the second pass found nothing to stage.
C10_Witness ==
    /\ dl_passes = 2
    /\ dl_reg = NewerVersions
    /\ dl_staged = << >>
    /\ dl_deps = << << "UMM", "UMM", "1.0.3" >>, Other100 >>

\* The lines of a text that ends with a line break.
LinesOf(t) == SplitLines(SubSeq(t, 1, Len(t) - 1))

Terminated(t) == t # << >> /\ t[Len(t)] = "\n"

\* The line begins with ##, an optional v and exactly three integers.
VersionHeader(l) == HeaderAt(l, 1) /\ At(l, HeaderEnd(l, 1)) # "."

StartsWithHashes(l) == At(l, 1) \in {"##", "#"}

\* A text of version headers, bullets, prose and blank lines, each line
\* ended by a line break.
PlainText(t) ==
    /\ Terminated(t)
    /\ \A i \in 1..Len(LinesOf(t)) :
           LET l == LinesOf(t)[i]
           IN  /\ StartsWithHashes(l) => VersionHeader(l)
               /\ \A k \in 2..Len(l) : l[k] \notin {"##", "#"}

\* Index of the first line from position i on that is a version header;
\* one past the last line when there is none.
FirstHeaderFrom(ls, i) ==
    LET hits == {k \in i..Len(ls) : VersionHeader(ls[k])}
    IN  IF hits = {} THEN Len(ls) + 1
        ELSE CHOOSE k \in hits : \A j \in hits : k <= j

\* The trimmed lines starting with '-' between the first header and the
\* next one.
SectionEntries(ls) ==
    LET h == FirstHeaderFrom(ls, 1)
        n == FirstHeaderFrom(ls, h + 1)
        body == [k \in 1..(n - h - 1) |-> StripWs(ls[h + k])]
    IN  SelectSeq(body, LAMBDA l : l # << >> /\ Head(l) = "-")

\* The version a header line states.
VersionOfLine(l) ==
    LET k == VersionStart(l, 1) IN << l[k], l[k + 2], l[k + 4] >>

Parsed == tx_result # << >>

\* C14: on a text of version headers, bullets, prose and blank lines the
\* parser returns the version of the first header and, as entries, exactly
\* the trimmed '-' lines between that header and the next header or the end
\* of the text; no version and no entries when there is no header.
C14_FirstSectionOnly ==
    (Parsed /\ PlainText(tx_text)) =>
        LET ls == LinesOf(tx_text)
            h == FirstHeaderFrom(ls, 1)
        IN  IF h > Len(ls) THEN tx_result[1].latest = NoEntries
            ELSE /\ tx_result[1].latest.version = VersionOfLine(ls[h])
                 /\ tx_result[1].latest.entries = SectionEntries(ls)

\* The lines of the text that begin with ##.
HashLines(t) == {i \in 1..Len(LinesOf(t)) : At(LinesOf(t)[i], 1) = "##"}

\* C15: a text whose only ## line has a version of two or of four segments
\* yields no version.
C15_ThreeSegmentsOnly ==
    (/\ Parsed
     /\ Terminated(tx_text)
     /\ Cardinality(HashLines(tx_text)) = 1
     /\ \A i \in HashLines(tx_text) : ~VersionHeader(LinesOf(tx_text)[i])) =>
        tx_result[1].latest.version = None

\* The header carries the marker in parentheses right after the version, an
\* optional colon and optional blanks.
CarriesMarker(l) ==
    LET e == HeaderEnd(l, 1)
        c == IF At(l, e) = ":" THEN e + 1 ELSE e
    IN  /\ VersionHeader(l)
        /\ Lower(At(l, SkipWs(l, c))) = "(unreleased)"

\* C16: the latest version is reported as unreleased exactly when the first
\* version header carries (unreleased), in any letter case, after the
\* version and an optional colon; has_unreleased_version and
\* get_unreleased_entries report the same flag.
C16_UnreleasedIffMarker ==
    (Parsed /\ PlainText(tx_text)
       /\ FirstHeaderFrom(LinesOf(tx_text), 1) <= Len(LinesOf(tx_text))) =>
        LET ls == LinesOf(tx_text)
            r == tx_result[1]
        IN  /\ r.latest.is_unreleased
                  <=> CarriesMarker(ls[FirstHeaderFrom(ls, 1)])
            /\ r.has[1] = r.latest.is_unreleased
            /\ (r.unreleased[1] # None) = r.latest.is_unreleased

IsMarker(x) == Lower(x) = "(unreleased)"

\* The line without its marker and the blanks before it, when it is a
\* version header carrying the marker; the line itself otherwise.
LineWithoutMarker(l) ==
    IF ~CarriesMarker(l) THEN l
    ELSE LET e == HeaderEnd(l, 1)
             c == IF At(l, e) = ":" THEN e + 1 ELSE e
         IN  SubSeq(l, 1, c - 1) \o SubSeq(l, SkipWs(l, c) + 1, Len(l))

\* The text with every line replaced by LineWithoutMarker.
WithoutMarkers(t) ==
    LET ls == SplitLines(t)
        F[i \in 1..Len(ls)] ==
            IF i = 1 THEN LineWithoutMarker(ls[1])
            ELSE F[i - 1] \o << "\n" >> \o LineWithoutMarker(ls[i])
    IN  F[Len(ls)]

\* No line begins with the marker, so that a marker follows a version
\* header only on the header's own line.
MarkersOnOwnLine(t) ==
    \A i \in 1..Len(SplitLines(t)) :
        ~IsMarker(At(SplitLines(t)[i], SkipWs(SplitLines(t)[i], 1)))

OneMarkerPerLine(t) ==
    \A i \in 1..Len(SplitLines(t)) :
        Cardinality({k \in 1..Len(SplitLines(t)[i]) :
                        IsMarker(SplitLines(t)[i][k])}) <= 1

BuiltName == ZipName(namespace, version)

\* C11 as stated: a run that reaches DONE leaves the manifest's
\* version_number and the info file's Version equal to the version in the
\* archive's file name, and the manifest.json inside that archive carries
\* the same version_number.
C11_VersionEverywhere ==
    pc = "done" =>
        /\ manifest.version_number = version
        /\ info.state = "ok" /\ info.Version = version
        /\ BuiltName \in zips
        /\ zip_data[BuiltName].manifest.version_number = version

\* C11 amended: a run that reaches DONE leaves the manifest's version_number
\* equal to the version in the archive's file name and the manifest.json
\* inside that archive carries it; the info file's Version equals it when
\* the info file exists and parses (a missing Version key reads as the
\* empty version); a missing or unparseable info file is left as it was.
C11_VersionWhereParsed ==
    pc = "done" =>
        /\ manifest.version_number = version
        /\ BuiltName \in zips
        /\ zip_data[BuiltName].manifest.version_number = version
        /\ info.state = "ok" =>
               \/ info.Version = version
               \/ info.Version = None /\ version = EmptyStr
        /\ info.state # "ok" => info = pre.info

\* The changelog's 2.0.0 went into a manifest and an info file that both
\* held another version, and into the archive.
C11_Witness ==
    /\ pc = "done"
    /\ version = V200
    /\ pre.manifest.version_number = V10
    /\ pre.info.Version = V100
    /\ manifest.version_number = V200
    /\ info.Version = V200
    /\ zip_data[BuiltName].manifest.version_number = V200

\* The first line of a text.
FirstLine(t) == SplitLines(t)[1]

\* The version was reconciled from the three sources of the scenario.
ScenarioRun == Falsy(override) /\ Reconciled

\* C18 as stated: the run selects 2.0.0 from the changelog with no
\* staleness warning, writes 2.0.0 to the manifest and to the info file,
\* and builds Author-Package-2.0.0.zip whose changelog copy begins with
\* "## v2.0.0:".
C18_ScenarioColon ==
    /\ ScenarioRun =>
           /\ version = V200
           /\ highest_source = "changelog"
           /\ decisions["changelog"] = "none"
    /\ (ScenarioRun /\ committed) =>
           /\ manifest.version_number = V200
           /\ info.Version = V200
    /\ (ScenarioRun /\ pc = "done") =>
           /\ zips = {ZipName("Author", V200)}
           /\ FirstLine(zip_data[ZipName("Author", V200)].changelog)
                  = HeaderLine(V200, << ":" >>)

\* C18 amended: as stated, but the changelog copy begins with "## v2.0.0",
\* the header as it was written less the marker and the blank before it;
\* the entry follows unchanged.
C18_ScenarioNoColon ==
    /\ ScenarioRun =>
           /\ version = V200
           /\ highest_source = "changelog"
           /\ decisions["changelog"] = "none"
    /\ (ScenarioRun /\ committed) =>
           /\ manifest.version_number = V200
           /\ info.Version = V200
    /\ (ScenarioRun /\ pc = "done") =>
           /\ zips = {ZipName("Author", V200)}
           /\ zip_data[ZipName("Author", V200)].changelog
                  = JoinLines(<< HeaderLine(V200, Released), Bullet >>)
           /\ zip_data[ZipName("Author", V200)].manifest.version_number = V200

\* The run of the scenario finished and built the archive.
C18_Witness ==
    /\ ScenarioRun
    /\ pc = "done"
    /\ pre.manifest.version_number = V190
    /\ pre.info.Version = V190
    /\ pre.changelog = ChangelogOf(V200, Marked)
    /\ ZipName("Author", V200) \in zips
    /\ info.Version = V200

\* The archive lies, with the content it was built with, in the releases
\* folder or in "Previous Versions".
Kept(n, c) ==
    \/ n \in zips /\ zip_data[n] = c
    \/ n \in prev_zips /\ prev_data[n] = c

\* C12: every archive an earlier run built, but for those replaced in the
\* releases folder by a confirmed overwrite of the same file name, still
\* lies with its content in the releases folder or in "Previous Versions".
C12_ArchivesKept == \A a \in produced : Kept(a[1], a[2])

\* The run before this one finished, and this run was started with the
\* same --version option and, if it came to settle the author, settled on
\* the same one.
SecondRun ==
    /\ prior.outcome = "done"
    /\ pc \in Terminal
    /\ override = prior.override
    /\ namespace \in {"", prior.namespace}

\* The archive the run before this one built.
PriorName == ZipName(prior.namespace, prior.version)

\* C13: a second run on the files the first run left, with the same options
\* and the same author, ends with the manifest version_number the first run
\* wrote and puts no archive of the first run's file name into "Previous
\* Versions".
C13_SecondRunSame ==
    SecondRun =>
        /\ manifest.version_number = prior.version
        /\ manifest.version_number = pre.manifest.version_number
        /\ PriorName \in zips
        /\ prev_zips = pre.prev_zips
        /\ prev_data = pre.prev_data

\* The second run finished too: it replaced the first run's archive of
\* 2.0.0 in place and moved nothing.
C13_Witness ==
    /\ SecondRun
    /\ pc = "done"
    /\ version = V200
    /\ pre.zips = {ZipName("Author", V200)}
    /\ zips = pre.zips
    /\ prev_zips = {}
    /\ decisions["archive"] \in {"yes", "flag"}

Returned == gd_pc = "returned"

\* The call found a cache an earlier call wrote less than CACHE_DURATION
\* seconds before.
FoundFresh ==
    /\ gd_pre.kind = "object"
    /\ gd_pre.writer = "code"
    /\ gd_start - gd_pre.timestamp < CACHE_DURATION

\* The call found no cache, one it could not open, one at least
\* CACHE_DURATION seconds old or one with an empty versions map.
FoundNone ==
    \/ gd_pre.kind \in {"missing", "unreadable"}
    \/ /\ gd_pre.kind = "object"
       /\ gd_pre.ts_kind = "number"
       /\ \/ gd_start - gd_pre.timestamp >= CACHE_DURATION
          \/ gd_pre.versions = EmptyMap

\* C19 as stated: a call made less than 86400 seconds after the timestamp
\* of a cache an earlier call wrote makes no lookup and returns the cached
\* map; a call that finds the cache missing, unreadable, at least 86400
\* seconds old or with an empty map makes one lookup per dependency and
\* rewrites the cache with the time of the call.
C19_CacheWindow ==
    Returned =>
        /\ FoundFresh => /\ gd_outcomes = << >>
                         /\ gd_result = gd_pre.versions
                         /\ gd_wrote = "no"
        /\ FoundNone => /\ Len(gd_outcomes) = Len(DepKeys)
                        /\ gd_wrote = "yes"
                        /\ gd_written = CacheWritten(gd_start, gd_result)

\* C19 amended: as stated, but the cache is rewritten only if the write
\* raises no OSError; when it does, the call returns the looked-up map all
\* the same and writes nothing.
C19_CacheWindowUnlessWriteFails ==
    Returned =>
        /\ FoundFresh => /\ gd_outcomes = << >>
                         /\ gd_result = gd_pre.versions
                         /\ gd_wrote = "no"
        /\ FoundNone => /\ Len(gd_outcomes) = Len(DepKeys)
                        /\ gd_wrote \in {"yes", "oserror"}
                        /\ gd_wrote = "yes" =>
                               gd_written = CacheWritten(gd_start, gd_result)
                        /\ gd_wrote = "oserror" => gd_written = NoCache

\* A call wrote the cache one second after the start; the next call, 86399
\* seconds later, returned that map without a lookup.
C19_Witness ==
    /\ Returned
    /\ FoundFresh
    /\ gd_pre.timestamp = CACHE_DURATION + 1
    /\ gd_start - gd_pre.timestamp = CACHE_DURATION - 1
    /\ gd_outcomes = << >>
    /\ gd_result = gd_pre.versions

\* The lookup raised nothing and brought no version.
LookupFailed(outcome) ==
    outcome \in {"url_error", "timeout", "bad_json", "empty"}

\* C20: whatever the cache file holds and whatever the lookups meet, the
\* call raises nothing; a cache that cannot be used is passed over and all
\* dependencies are looked up; a dependency whose lookup fails gets its
\* fallback version.
C20_NeverRaises ==
    /\ gd_pc # "raised"
    /\ (Returned /\ gd_pre.kind \in {"unreadable", "invalid", "nonobject"}) =>
           Len(gd_outcomes) = Len(DepKeys)
    /\ (Returned /\ gd_outcomes # << >>) =>
           \A k \in 1..Len(gd_outcomes) :
               LookupFailed(gd_outcomes[k]) =>
                   gd_result[DepKeys[k]] =
                       FALLBACK_DEPENDENCY_VERSIONS[DepKeys[k]]

\* The BroMakerVersion reconciliation has something to reconcile.
HasBroMakerVersion ==
    /\ project_type = "bro"
    /\ info.state = "ok"
    /\ info.BroMakerVersion # NoBroMaker

\* The phase the run is in, in the order START, PRECONDITIONS,
\* VERSION_RECONCILE, AUTHOR_RECONCILE, DEP_RECONCILE (the outdated pass,
\* the missing pass and the BroMakerVersion reconciliation),
\* VERSION_COMMIT, ARCHIVE_ASSEMBLE, end.
Phase ==
    CASE pc = "idle" -> 0
      [] pc = "preconditions" -> 1
      [] pc = "version_reconcile" -> 2
      [] pc = "author_reconcile" -> 3
      [] pc \in {"dep_outdated", "dep_missing"} -> 4
      [] pc = "bromaker_reconcile" -> IF HasBroMakerVersion THEN 4 ELSE 5
      [] pc = "version_commit" -> 5
      [] pc = "archive_assemble" -> 6
      [] OTHER -> 7

DepConds == {"outdated", "missing", "bromaker"}

\* One step of a run that has not ended.
PhaseStep ==
    (pc \notin {"idle"} \cup Terminal) =>
    /\ Phase' >= Phase
    /\ committed => \A c \in DepConds : decisions'[c] = decisions[c]
    /\ pc' \in Terminal => pc' \in {"done", "aborted", "failed"}

\* C21: a run goes through its phases in the order PRECONDITIONS,
\* VERSION_RECONCILE, AUTHOR_RECONCILE, DEP_RECONCILE, VERSION_COMMIT,
\* ARCHIVE_ASSEMBLE and never back; no decision of dependency reconciliation
\* is taken after the manifest write of the version commit; the run ends in
\* DONE, ABORTED or FAILED.
C21_PhaseOrder ==
    [][PhaseStep]_vars

\* A metadata file of the project is missing or holds malformed JSON.
MetadataUnusable ==
    \/ pre.manifest.state # "ok"
    \/ pre.info.state # "ok"
    \/ pre.changelog.state # "ok"

\* C22: a run on a project with a missing or malformed metadata file ends
\* in DONE, ABORTED or FAILED with a status of 0 or 1 raised by do_package
\* itself; no exception leaves do_package.
C22_NoEscape ==
    (pc \in Terminal /\ MetadataUnusable) =>
        /\ pc \in {"done", "aborted", "failed"}
        /\ cause # "manifest_json"

\* C23: of the calls running at the same time none raises, each returns a
\* version for every tracked dependency, and when all have returned and one
\* of them wrote, the cache file holds the record one of them dumped.
C23_LastWriterWins ==
    /\ \A p \in Procs : cc_pc[p] # "raised"
    /\ \A p \in Procs :
         cc_pc[p] = "returned" =>
             /\ DOMAIN cc_result[p] = SeqToSet(DepKeys)
             /\ \A k \in DOMAIN cc_result[p] : cc_result[p][k] # ""
    /\ ((\A p \in Procs : cc_pc[p] = "returned")
        /\ (\E p \in Procs : cc_wrote[p] # NoCache)) =>
           \E p \in Procs : cc_wrote[p] # NoCache /\ cache = cc_wrote[p]

\* The version commit has just been made.
JustCommitted == pc = "bromaker_reconcile"

\* The Version the info file held when the run started; the file is not
\* written before the version commit.
StoredVersion ==
    IF pre.info.Version = None THEN EmptyStr ELSE pre.info.Version

\* C24: the version commit leaves an info file whose Version equals the
\* target as it is and does not report it as updated; otherwise it changes
\* the Version field only and reports the update; "already at version" is
\* reported only for a file whose stored Version equals the target, and a
\* missing or malformed info file gets a warning and no "already at
\* version".
C24_SyncReport ==
    JustCommitted =>
        /\ (pre.info.state = "ok" /\ StoredVersion = version) =>
               /\ info = pre.info
               /\ "updated" \notin info_report
        /\ (pre.info.state = "ok" /\ StoredVersion # version) =>
               /\ info = [pre.info EXCEPT !.Version = version]
               /\ "updated" \in info_report
        /\ "already" \in info_report =>
               /\ pre.info.state = "ok"
               /\ StoredVersion = version
        /\ pre.info.state # "ok" =>
               /\ info = pre.info
               /\ info_report \cap {"warning_sync", "warning_not_found"} # {}
               /\ "already" \notin info_report

\* The text before and after the last changelog add, and the line added.
Before == LatestVersionEntries(tx_prev)
AddedLine == << "-", " ", "N" >>

\* The position after the line break of the latest version header of t.
AfterHeader(t) == NextNewline(t, HeaderEnd(t, SearchHeader(t)))

\* C25 as stated: changelog add succeeds only on a text whose latest version
\* header is marked unreleased; then the text is the earlier one with the
\* one line "- N" put directly after that header, and the parse gives the
\* new entry followed by the earlier entries; a refused add leaves the text
\* as it was.
C25_AddAfterHeader ==
    /\ tx_op = "added" =>
           /\ Before.is_unreleased
           /\ tx_text = InsertAfter(tx_prev, AfterHeader(tx_prev), "N")
           /\ tx_result # << >> =>
                  tx_result[1].latest.entries = << AddedLine >> \o Before.entries
    /\ tx_op = "refused" => tx_text = tx_prev

\* C26: after a run that reached DONE on a changelog whose latest version
\* the parser reported as unreleased, the parser no longer reports it so:
\* the project is not listed by the unreleased command and changelog add
\* is refused.
C26_ReleasedAfterDone ==
    (pc = "done" /\ has_unreleased_version(pre.changelog)[1]) =>
        /\ ~has_unreleased_version(changelog)[1]
        /\ ~add_changelog_entry(changelog, "N").ok

\* A version field that is present and made of numeric segments.
Sound(v) == ~Falsy(v) /\ WellFormed(v)

\* The run had no version override and found the three version fields
\* well-formed, and it made the version commit.
CommittedOnSound ==
    /\ committed
    /\ Falsy(override)
    /\ pre.manifest.state = "ok" /\ Sound(pre.manifest.version_number)
    /\ pre.info.state = "ok" /\ Sound(pre.info.Version)
    /\ Sound(PreChangelogVersion)

\* C27: a run without version override on well-formed version fields that
\* made the version commit left the manifest's version_number and the info
\* file's Version greater than or equal to what they were before the run.
C27_NeverLowered ==
    CommittedOnSound =>
        /\ compare_versions(manifest.version_number,
                            pre.manifest.version_number) >= 0
        /\ compare_versions(info.Version, pre.info.Version) >= 0

\* The second of two runs raised both fields, which the first run, made
\* with --version, had lowered below the changelog's version.
C27_Witness ==
    /\ CommittedOnSound
    /\ prior.outcome = "done"
    /\ ~Falsy(prior.override)
    /\ compare_versions(manifest.version_number,
                        pre.manifest.version_number) > 0
    /\ compare_versions(info.Version, pre.info.Version) > 0

Assembling == pc \in {"archive_assemble", "done"}

NoAuthor == {"", "Unknown"}

Place(name) == CHOOSE i \in 1..Len(Listing) : Listing[i] = name

\* The do_package calls were made in the order of the listing.
InListingOrder ==
    \A i, j \in 1..Len(b_log) :
        i < j => Place(b_log[i].name) < Place(b_log[j].name)

\* Every call but the last reached DONE, a call that did not ended the
\* command, and what a call wrote is still there.
StopsAtFirstFailure ==
    /\ \A i \in 1..Len(b_log) :
         /\ i < Len(b_log) => b_log[i].outcome = "done"
         /\ b_log[i].outcome = "done" => b_log[i].name \in b_disk
         /\ b_log[i].outcome # "done" => b_state = "exited"
    /\ b_state = "returned" =>
           \A i \in 1..Len(b_log) : b_log[i].outcome = "done"

\* C30 as stated: the projects of a batch are packaged one at a time in
\* listing order; a call that fails or is cancelled ends the command, no
\* later project is packaged and the files of the earlier ones stay.
C30_BatchStops ==
    /\ InListingOrder
    /\ StopsAtFirstFailure

\* The names of the batch that are projects, in the order of the batch.
Known == SelectSeq(b_batch, LAMBDA x : x \in Listed)

\* C30 amended: the projects are packaged one at a time in the order of
\* the batch, which is the listing order except for --package, where it is
\* the order the names were given in; the rest as stated.
C30_BatchStopsInBatchOrder ==
    /\ Len(b_log) <= Len(Known)
    /\ \A i \in 1..Len(b_log) : b_log[i].name = Known[i]
    /\ b_mode # "unreleased_named" => InListingOrder
    /\ StopsAtFirstFailure

\* The second of three projects failed after the first was packaged, and
\* the command ended without packaging the third.
C30_Witness ==
    /\ b_batch = Listing
    /\ Len(b_log) = 2
    /\ b_log[1].outcome = "done"
    /\ b_log[2].outcome = "failed"
    /\ b_state = "exited"
    /\ "P1" \in b_disk

====
